---- MODULE Spec2Model ----
(***************************************************************************)
(* A model of zap, a Bitcask-style key-value store: append-only segment    *)
(* files, an in-memory index from user key to record locator, write        *)
(* batches closed by a commit marker, merge (compaction) and its           *)
(* installation at the next open.                                          *)
(*                                                                         *)
(* Bytes are small naturals, byte strings are sequences of them.  Every    *)
(* length and sequence number of the model is below 128, so every varint   *)
(* is one byte long.  A segment file is the sequence of the records that   *)
(* were appended to it; byte offsets are computed from the encoded record  *)
(* lengths.                                                                *)
(***************************************************************************)
EXTENDS Integers, Sequences, FiniteSets, TLC

(***************************************************************************)
(* Bounds of the model and option values of the modelled database.         *)
(***************************************************************************)
MaxRecs == 4
max_key_size == 3
max_value_size == 2
data_file_size == 32
max_batch_num == 2
MaxMerges == 2
MaxStops == 1
MaxThreads == 2
MaxCommits == 3
MaxMergeRecs == 3
MaxFileId == 9
MaxCallRecs == 2

(***************************************************************************)
(* Program constants.                                                      *)
(***************************************************************************)
INITIAL_FILE_ID == 0
NON_COMMITTED == 0
HeaderBufLen == 11
CrcLen == 4
COMMITTED_KEY == <<95, 95, 67, 79, 77, 77, 73, 84, 84, 69, 68, 95, 95>>

KeyA == <<97>>
KeyB == <<98, 98, 98>>
UserKeys == {KeyA, KeyB}
Val1 == <<49>>
Val2 == <<50, 50>>
Values == {Val1, Val2}

EmptyMap == <<>>

(***************************************************************************)
(* Record codec (storage/entry.rs) and transaction key codec (batch.rs).   *)
(***************************************************************************)
length_delimiter_len(n) == IF n < 128 THEN 1 ELSE 2

DataEntry(key, value, state) == [key |-> key, value |-> value, state |-> state]

\* length of the encoding: state, two varints, key, value, crc
EncodedLen(e) ==
    1 + length_delimiter_len(Len(e.key)) + length_delimiter_len(Len(e.value))
      + Len(e.key) + Len(e.value) + CrcLen

\* size of the header that decode_header consumes
HeaderSize(e) ==
    length_delimiter_len(Len(e.key)) + length_delimiter_len(Len(e.value)) + 1

is_active(e) == e.state = "Active"

\* the byte State is written as
StateByte(state) ==
    IF state = "Active" THEN 0 ELSE IF state = "Inactive" THEN 1 ELSE 2

\* the bytes the checksum covers: state, the two lengths, key, value
ChecksumInput(e) == <<StateByte(e.state), Len(e.key), Len(e.value)>> \o e.key \o e.value

\* a checksum of a byte string that, like CRC-32, changes whenever one byte
\* of the string changes
RECURSIVE Checksum(_, _)
Checksum(bytes, h) ==
    IF bytes = <<>> THEN h
    ELSE Checksum(Tail(bytes), (h * 257 + Head(bytes) + 1) % 65521)

\* DataEntry::get_crc: the checksum of the encoding of the entry
get_crc(e) == Checksum(ChecksumInput(e), 0)

\* the checksum stored with a record on disk: the one encode wrote, unless
\* the bytes of the record were altered afterwards, when the record carries
\* the checksum that is on disk in its field crc
StoredCrc(e) == IF "crc" \in DOMAIN e THEN e.crc ELSE get_crc(e)

\* DataEntry::decode: the stored checksum is not the checksum of the decoded
\* state, key and value
CrcCheckFailed(e) ==
    "crc" \in DOMAIN e /\ e.crc # get_crc(DataEntry(e.key, e.value, e.state))

encode_transaction_key(key, seq_no) == <<seq_no>> \o key

decode_transaction_key(bytes) == [key |-> Tail(bytes), seq_no |-> Head(bytes)]

KeyDirEntry(file_id, offset, size) ==
    [file_id |-> file_id, offset |-> offset, size |-> size]

\* KeyDirEntry::encode: three varints
keydir_encode(loc) == <<loc.file_id, loc.offset, loc.size>>

decode_keydir_entry(bytes) == KeyDirEntry(bytes[1], bytes[2], bytes[3])

(***************************************************************************)
(* Segment files.                                                          *)
(***************************************************************************)
RECURSIVE SegLen(_)
SegLen(s) == IF s = <<>> THEN 0 ELSE EncodedLen(Head(s)) + SegLen(Tail(s))

\* byte offset of the i-th record of a file
OffsetOf(s, i) == SegLen(SubSeq(s, 1, i - 1))

RecordsAt(s, offset) == {i \in 1..Len(s) : OffsetOf(s, i) = offset}

\* MmapIO::read fails when the read reaches past the end of the mapping;
\* StandardIO::read (read_at) returns the bytes there are.
IoReadOk(io, flen, offset, buflen) ==
    IF io = "Mmap" THEN offset + buflen <= flen ELSE TRUE

\* the read of the record header: a buffer of HeaderBufLen bytes filled from
\* the bytes at offset
HeaderReadOk(io, flen, offset) == IoReadOk(io, flen, offset, HeaderBufLen)

\* FileHandle::extract_data_entry: header buffer of HeaderBufLen bytes read at
\* offset, then the body at offset + header size.  An offset at or past the
\* end of the data decodes two zero lengths (end of file); an offset inside
\* a record decodes bytes that are no record (CRC failure).
extract_data_entry(s, io, offset) ==
    IF ~HeaderReadOk(io, SegLen(s), offset)
    THEN [kind |-> "Eof", entry |-> DataEntry(<<>>, <<>>, "Active"), size |-> 0]
    ELSE IF offset >= SegLen(s)
    THEN [kind |-> "Eof", entry |-> DataEntry(<<>>, <<>>, "Active"), size |-> 0]
    ELSE IF RecordsAt(s, offset) = {}
    THEN [kind |-> "Crc", entry |-> DataEntry(<<>>, <<>>, "Active"), size |-> 0]
    ELSE LET i == CHOOSE j \in RecordsAt(s, offset) : TRUE
         IN IF CrcCheckFailed(s[i])
            THEN [kind |-> "Crc", entry |-> DataEntry(<<>>, <<>>, "Active"), size |-> 0]
            ELSE [kind |-> "Ok", entry |-> s[i], size |-> EncodedLen(s[i])]

\* FileHandle::read stores the offset it reads at in the handle; after an
\* extract the handle's offset is the offset of the last read made.
OffsetAfterExtract(s, io, offset) ==
    IF ~HeaderReadOk(io, SegLen(s), offset) \/ offset >= SegLen(s)
    THEN offset
    ELSE IF RecordsAt(s, offset) = {}
    THEN offset + HeaderSize(DataEntry(<<NON_COMMITTED>>, <<>>, "Active"))
    ELSE LET i == CHOOSE j \in RecordsAt(s, offset) : TRUE
         IN offset + HeaderSize(s[i])

(***************************************************************************)
(* Index (index/hashmap.rs).                                               *)
(***************************************************************************)
IndexPut(index, key, loc) ==
    IF key \in DOMAIN index THEN [index EXCEPT ![key] = loc]
    ELSE index @@ (key :> loc)

IndexDelete(index, key) == [k \in DOMAIN index \ {key} |-> index[k]]

IndexGet(index, key) == IF key \in DOMAIN index THEN {index[key]} ELSE {}

(***************************************************************************)
(* Db (db.rs).  The part of a Db that append_entry works on is a record    *)
(*   segs           : the segment files of the directory, by id            *)
(*   active_file    : the active handle [file_id, offset, io]              *)
(*   inactive_files : the io of the handle of every inactive segment       *)
(*   file_id        : the file-id counter                                  *)
(* The offset of an inactive handle is read nowhere and is left out.       *)
(***************************************************************************)
FileHandle(file_id, offset, io) == [file_id |-> file_id, offset |-> offset, io |-> io]

\* StandardIO::new: create | read | append, an existing file keeps its content
CreateFile(segs, id) == IF id \in DOMAIN segs THEN segs ELSE segs @@ (id :> <<>>)

MapPut(m, k, v) == IF k \in DOMAIN m THEN [m EXCEPT ![k] = v] ELSE m @@ (k :> v)

RotatedKeepsHandle(w) ==
    LET current_fid == w.file_id
    IN [segs |-> CreateFile(w.segs, current_fid + 1),
        active_file |-> FileHandle(current_fid, 0, "Standard"),
        inactive_files |-> MapPut(w.inactive_files, current_fid, w.active_file.io),
        file_id |-> current_fid + 1]

\* the rotation of append_entry and of rotate_active_file
Rotated(w) ==
    LET current_fid == w.file_id
    IN [segs |-> CreateFile(w.segs, current_fid + 1),
        active_file |-> FileHandle(current_fid + 1, 0, "Standard"),
        inactive_files |-> MapPut(w.inactive_files, current_fid, w.active_file.io),
        file_id |-> current_fid + 1]

NeedsRotation(offset, record_len) == offset + record_len > data_file_size

\* Db::append_entry: the Db after the append and the locator returned.
\* The file is opened in append mode: the bytes go to the end of the file,
\* the handle's offset advances from the value it held.
append_entry(w, entry) ==
    LET record_len == EncodedLen(entry)
        w1 == IF NeedsRotation(w.active_file.offset, record_len) THEN Rotated(w) ELSE w
        fid == w1.active_file.file_id
        current_offset == w1.active_file.offset
    IN [w |-> [w1 EXCEPT !.segs[fid] = Append(@, entry),
                         !.active_file.offset = current_offset + record_len],
        loc |-> KeyDirEntry(w1.file_id, (current_offset + record_len) - record_len,
                            record_len)]

\* the entries of a vector appended one after the other
RECURSIVE AppendAll(_, _, _)
AppendAll(w, entries, locs) ==
    IF entries = <<>> THEN [w |-> w, locs |-> locs]
    ELSE LET Appended(r) == AppendAll(r.w, Tail(entries), Append(locs, r.loc))
         IN Appended(append_entry(w, Head(entries)))

(***************************************************************************)
(* Recovery scan of one segment: Db::process_file_handle.                  *)
(***************************************************************************)
\* the closure run on the buffered entries of a batch when its commit marker
\* is met; key is the user key decoded from the marker record
RECURSIVE ApplyBuffered(_, _, _)
ApplyBuffered(index, buffered, key) ==
    IF buffered = <<>> THEN index
    ELSE LET data_entry == Head(buffered).entry
             keydir_entry == Head(buffered).loc
             i1 == IndexPut(index, data_entry.key, keydir_entry)
             i2 == IF data_entry.state = "Active"
                   THEN IndexPut(i1, data_entry.key, keydir_entry)
                   ELSE IndexDelete(i1, key)
         IN ApplyBuffered(i2, Tail(buffered), key)

RECURSIVE ScanLoop(_, _, _, _, _, _, _)
ScanLoop(s, file_id, io, offset, index, transactions, current_sequence_number) ==
    LET Stop(panic) == [index |-> index, seq |-> current_sequence_number,
                        offset |-> offset, panic |-> panic]
        \* the body of the loop for the record r read at offset, with the key
        \* and the sequence number d decoded from its key
        Body(r, keydir_entry, d, new_index, new_transactions) ==
            IF r.entry.state = "Committed" /\ d.seq_no # NON_COMMITTED
                                           /\ d.seq_no \notin DOMAIN transactions
            THEN Stop(TRUE)
            ELSE ScanLoop(s, file_id, io, offset + r.size, new_index, new_transactions,
                          IF current_sequence_number < d.seq_no
                          THEN d.seq_no ELSE current_sequence_number)
        Decoded(r, keydir_entry, d) ==
            Body(r, keydir_entry, d,
                 IF d.seq_no = NON_COMMITTED
                 THEN IF r.entry.state = "Active"
                      THEN IndexPut(index, d.key, keydir_entry)
                      ELSE IndexDelete(index, d.key)
                 ELSE IF r.entry.state = "Committed" /\ d.seq_no \in DOMAIN transactions
                 THEN ApplyBuffered(index, transactions[d.seq_no], d.key)
                 ELSE index,
                 IF d.seq_no = NON_COMMITTED THEN transactions
                 ELSE IF r.entry.state = "Committed"
                 THEN [q \in DOMAIN transactions \ {d.seq_no} |-> transactions[q]]
                 ELSE MapPut(transactions, d.seq_no,
                             Append(IF d.seq_no \in DOMAIN transactions
                                    THEN transactions[d.seq_no] ELSE <<>>,
                                    [entry |-> [r.entry EXCEPT !.key = d.key],
                                     loc |-> keydir_entry])))
        Read(r) ==
            IF r.kind # "Ok" THEN Stop(FALSE)
            ELSE Decoded(r, KeyDirEntry(file_id, offset, r.size),
                         decode_transaction_key(r.entry.key))
    IN Read(extract_data_entry(s, io, offset))

process_file_handle(s, file_id, io, index, current_sequence_number) ==
    ScanLoop(s, file_id, io, 0, index, EmptyMap, current_sequence_number)

(***************************************************************************)
(* Directories.  A directory is a record                                   *)
(*   exists  : the directory exists                                        *)
(*   segs    : its segment files <id>.db, by id                            *)
(*   hint    : the records of its hint file     (has_hint: the file exists)*)
(*   fin     : the records of merge_finished    (has_fin: the file exists) *)
(*   lock    : the inode of its file.lock, 0 when there is none            *)
(***************************************************************************)
NoDir == [exists |-> FALSE, segs |-> EmptyMap, hint |-> <<>>, has_hint |-> FALSE,
          fin |-> <<>>, has_fin |-> FALSE, lock |-> 0]

EmptyDir == [NoDir EXCEPT !.exists = TRUE]

\* the ASCII decimal form of a file id below ten, and its parse
IdToString(id) == <<48 + id>>
ParseId(bytes) == bytes[1] - 48

RECURSIVE SortedSeq(_)
SortedSeq(S) ==
    IF S = {} THEN <<>>
    ELSE LET m == CHOOSE x \in S : \A y \in S : x <= y
         IN <<m>> \o SortedSeq(S \ {m})

\* the files of a merge directory, as the set of its segment ids and one flag
\* for each of hint, merge_finished and file.lock
AllFiles(m) == [segs |-> DOMAIN m.segs, hint |-> m.has_hint, fin |-> m.has_fin,
                lock |-> m.lock # 0]

\* the two loops of process_merge_files, run as far as: the segments of d with
\* an id below deleted_below removed, the files moved renamed from m into d
InstallSteps(d, m, deleted_below, moved) ==
    LET kept == {i \in DOMAIN d.segs : ~(i < deleted_below)}
        ids == kept \cup moved.segs
    IN [d |-> [exists |-> TRUE,
               segs |-> [i \in ids |-> IF i \in moved.segs THEN m.segs[i] ELSE d.segs[i]],
               hint |-> IF moved.hint THEN m.hint ELSE d.hint,
               has_hint |-> moved.hint \/ d.has_hint,
               fin |-> IF moved.fin THEN m.fin ELSE d.fin,
               has_fin |-> moved.fin \/ d.has_fin,
               lock |-> IF moved.lock THEN m.lock ELSE d.lock],
        m |-> [exists |-> TRUE,
               segs |-> [i \in DOMAIN m.segs \ moved.segs |-> m.segs[i]],
               hint |-> IF moved.hint THEN <<>> ELSE m.hint,
               has_hint |-> m.has_hint /\ ~moved.hint,
               fin |-> IF moved.fin THEN <<>> ELSE m.fin,
               has_fin |-> m.has_fin /\ ~moved.fin,
               lock |-> IF moved.lock THEN 0 ELSE m.lock]]

\* a merge directory whose merge_finished file exists and decodes
MergeIsFinished(m) ==
    m.exists /\ m.has_fin /\ extract_data_entry(m.fin, "Standard", 0).kind = "Ok"

UnmergedFileId(m) == ParseId(extract_data_entry(m.fin, "Standard", 0).entry.value)

\* process_merge_files: the directory d and its merge directory m after the
\* installation of a finished merge, or after the removal of an unfinished one
process_merge_files(d, m) ==
    IF ~m.exists THEN [d |-> d, m |-> m]
    ELSE IF ~MergeIsFinished(m) THEN [d |-> d, m |-> NoDir]
    ELSE [d |-> InstallSteps(d, m, UnmergedFileId(m), AllFiles(m)).d, m |-> NoDir]

\* the scan of the segments of a directory in ascending id order
RECURSIVE ScanFiles(_, _, _, _)
ScanFiles(segs, ids, index, current_sequence_number) ==
    IF ids = <<>>
    THEN [index |-> index, seq |-> current_sequence_number, offset |-> 0, panic |-> FALSE]
    ELSE LET Scanned(r) == IF r.panic \/ Len(ids) = 1 THEN r
                           ELSE ScanFiles(segs, Tail(ids), r.index, r.seq)
         IN Scanned(process_file_handle(segs[Head(ids)], Head(ids), "Mmap", index,
                                        current_sequence_number))

\* Db::load_index_from_hint_file: every hint record put into the index under
\* the key stored in the record
RECURSIVE LoadHints(_, _, _)
LoadHints(hint, offset, index) ==
    LET Read(r) ==
            IF r.kind = "Eof" THEN [ok |-> TRUE, index |-> index]
            ELSE IF r.kind # "Ok" THEN [ok |-> FALSE, index |-> index]
            ELSE LoadHints(hint, offset + r.size,
                           IndexPut(index, r.entry.key, decode_keydir_entry(r.entry.value)))
    IN Read(extract_data_entry(hint, "Standard", offset))

load_index_from_hint_file(d, index) ==
    IF ~d.has_hint THEN [ok |-> TRUE, index |-> index]
    ELSE LoadHints(d.hint, 0, index)

\* FileHandle::set_io: the handle bound to the buffered append backend
set_io(handle) == [handle EXCEPT !.io = "Standard"]

NoDb == [index |-> EmptyMap, active_file |-> FileHandle(0, 0, "Standard"),
         inactive_files |-> EmptyMap, file_id |-> 0, sequence_number |-> 0]

\* the smallest inode number that names no lock file in use
FreshInode(used) == CHOOSE n \in 1..(Cardinality(used) + 1) :
                        n \notin used /\ \A k \in 1..(n - 1) : k \in used

\* Db::open on directory d with merge directory m; held is the set of the
\* inodes of lock files on which a lock is held, used the set of inodes in use.
\* kind is Ok, Unsupported (the directory is in use), Panic (an unwrap on
\* None during the scan) or Err (the hint file does not decode).
open(d0, m0, held, used) ==
    LET \* the Db constructed from the scan sc and the hint load hl
        Loaded(lock, m, d3, active_id, sc, hl) ==
            IF sc.panic
            THEN [kind |-> "Panic", d |-> d3, m |-> m, db |-> NoDb, lock_file |-> 0]
            ELSE IF ~hl.ok
            THEN [kind |-> "Err", d |-> d3, m |-> m, db |-> NoDb, lock_file |-> 0]
            ELSE [kind |-> "Ok", d |-> d3, m |-> m, lock_file |-> lock,
                  db |-> [index |-> hl.index,
                          active_file |-> set_io(FileHandle(active_id, sc.offset, "Mmap")),
                          inactive_files |-> [i \in DOMAIN d3.segs \ {active_id} |-> "Mmap"],
                          file_id |-> active_id,
                          sequence_number |-> sc.seq + 1]]
        Scanned(lock, m, d3, active_id, sc) ==
            Loaded(lock, m, d3, active_id, sc, load_index_from_hint_file(d3, sc.index))
        \* the handles of the sorted file ids, a new file INITIAL_FILE_ID when
        \* there is none, and the scan of the handles
        Listed(lock, m, d2, file_ids) ==
            Scanned(lock, m,
                    IF file_ids = <<>>
                    THEN [d2 EXCEPT !.segs = CreateFile(d2.segs, INITIAL_FILE_ID)]
                    ELSE d2,
                    IF file_ids = <<>> THEN INITIAL_FILE_ID ELSE file_ids[Len(file_ids)],
                    ScanFiles(d2.segs, file_ids, EmptyMap, NON_COMMITTED))
        Installed(lock, pm) == Listed(lock, pm.m, pm.d, SortedSeq(DOMAIN pm.d.segs))
        Locked(lock, d1) ==
            IF lock \in held
            THEN [kind |-> "Unsupported", d |-> d1, m |-> m0, db |-> NoDb, lock_file |-> 0]
            ELSE Installed(lock, process_merge_files(d1, m0))
        Created(lock) == Locked(lock, [d0 EXCEPT !.exists = TRUE, !.lock = lock])
    IN Created(IF d0.lock = 0 THEN FreshInode(used) ELSE d0.lock)

\* Db::read_data_entry and Db::get on a Db record db over the files segs
Result(kind, value) == [kind |-> kind, value |-> value]

read_data_entry(db, segs, entry) ==
    LET file_id == entry.file_id
        offset == entry.offset
        Read(r) == IF r.kind # "Ok" THEN Result(r.kind, <<>>)
                   ELSE IF ~is_active(r.entry) THEN Result("EntryRemoved", <<>>)
                   ELSE Result("Ok", r.entry.value)
        From(known, s, io) ==
            IF known THEN Read(extract_data_entry(s, io, offset))
            ELSE Result("FileNotFound", <<>>)
    IN IF file_id = db.file_id
       THEN From(TRUE, segs[db.active_file.file_id], db.active_file.io)
       ELSE IF file_id \in DOMAIN db.inactive_files
       THEN From(TRUE, segs[file_id], db.inactive_files[file_id])
       ELSE From(FALSE, <<>>, "Standard")

get(db, segs, key) ==
    IF key = <<>> \/ Len(key) > max_key_size THEN Result("Unsupported", <<>>)
    ELSE IF key \notin DOMAIN db.index THEN Result("KeyNotFound", <<>>)
    ELSE read_data_entry(db, segs, db.index[key])

(***************************************************************************)
(* Merge (merge.rs).                                                       *)
(***************************************************************************)
MERGE_FINISHED_KEY ==
    <<95, 95, 77, 69, 82, 71, 69, 95, 70, 73, 78, 73, 83, 72, 69, 68, 95, 95>>

\* the part of a Db record that append_entry works on, over the files segs
WOf(db, segs) == [segs |-> segs, active_file |-> db.active_file,
                  inactive_files |-> db.inactive_files, file_id |-> db.file_id]

\* the loop of merge over one snapshot file: a record is copied when the
\* index holds its key with the locator of this very record; the copy has
\* sequence number NON_COMMITTED and a hint record follows it.  acc holds the
\* merge Db (w), the hint file (hint) and the number of records copied;
\* the loop stops for good after limit copies.
RECURSIVE MergeLoop(_, _, _, _, _, _, _)
MergeLoop(s, fid, io, offset, idx, acc, limit) ==
    LET \* the record copied under the key nkey, and its hint record
        Copied(nkey, a) ==
            [w |-> a.w,
             hint |-> Append(acc.hint, DataEntry(nkey, keydir_encode(a.loc), "Active")),
             copied |-> acc.copied + 1]
        Rekeyed(r, nkey) == Copied(nkey, append_entry(acc.w, [r.entry EXCEPT !.key = nkey]))
        Decoded(r, key) ==
            MergeLoop(s, fid, io, offset + r.size, idx,
                      IF /\ key \in DOMAIN idx
                         /\ idx[key].file_id = fid
                         /\ idx[key].offset = offset
                      THEN Rekeyed(r, encode_transaction_key(key, NON_COMMITTED))
                      ELSE acc,
                      limit)
        Read(r) == IF r.kind # "Ok" \/ acc.copied = limit THEN acc
                   ELSE Decoded(r, decode_transaction_key(r.entry.key).key)
    IN Read(extract_data_entry(s, io, offset))

RECURSIVE MergeFiles(_, _, _, _, _, _)
MergeFiles(segs, ids, ios, idx, acc, limit) ==
    IF ids = <<>> THEN acc
    ELSE MergeFiles(segs, Tail(ids), ios, idx,
                    MergeLoop(segs[Head(ids)], Head(ids), ios[Head(ids)], 0, idx, acc, limit),
                    limit)

IsEmptyDbUntested(db) == FALSE

\* the test merge makes first: the Db holds no record
IsEmptyDb(db) == db.active_file.offset = 0 /\ DOMAIN db.inactive_files = {}

\* Db::merge of the Db record db on directory d with merge directory m, the Db
\* holding the lock on inode lock.  The result is the kind of the outcome, the
\* part w of the Db that changed and the merge directory.  limit and fin
\* describe where the call stops: after limit copies, and with merge_finished
\* "absent", "empty" (created, not yet written) or "written".
merge(db, d, m, lock, used, limit, fin) ==
    IF IsEmptyDb(db)
    THEN [kind |-> "Unsupported", w |-> WOf(db, d.segs), m |-> m]
    ELSE LET snapshot == DOMAIN db.inactive_files \cup {db.active_file.file_id}
             ios == [i \in snapshot |-> IF i = db.active_file.file_id
                                        THEN db.active_file.io
                                        ELSE db.inactive_files[i]]
             \* merge_finished written with the first file id that was not merged
             Finished(md, acc, unmerged_file_id) ==
                 [kind |-> "Ok",
                  w |-> Rotated(WOf(db, d.segs)),
                  m |-> [md EXCEPT !.segs = acc.w.segs,
                                   !.hint = acc.hint,
                                   !.has_hint = TRUE,
                                   !.has_fin = @ \/ fin # "absent",
                                   !.fin = IF fin = "written"
                                           THEN Append(@, DataEntry(MERGE_FINISHED_KEY,
                                                                    IdToString(unmerged_file_id),
                                                                    "Active"))
                                           ELSE @]]
             Snapshot(o, ids) ==
                 Finished(o.d,
                          MergeFiles(d.segs, ids, ios, db.index,
                                     [w |-> WOf(o.db, o.d.segs), hint |-> o.d.hint,
                                      copied |-> 0],
                                     limit),
                          ids[Len(ids)] + 1)
             Opened(o) ==
                 IF o.kind # "Ok" THEN [kind |-> o.kind, w |-> WOf(db, d.segs), m |-> o.d]
                 ELSE Snapshot(o, SortedSeq(snapshot))
         IN Opened(open(m, NoDir, {lock}, used))

\* the live set: every key of the index that get serves, with its value
LiveSet(db, segs) ==
    {<<k, get(db, segs, k).value>> : k \in {x \in DOMAIN db.index : get(db, segs, x).kind = "Ok"}}

(***************************************************************************)
(* State.                                                                  *)
(***************************************************************************)
VARIABLES
    dir,              \* the database directory
    mdir,             \* its sibling merge directory
    live,             \* a Db is open on dir
    index,            \* Db.ctx.index
    active_file,      \* Db.active_file
    inactive_files,   \* Db.inactive_files
    file_id,          \* Db.file_id
    sequence_number,  \* Db.sequence_number
    lock_file,        \* inode on which the Db holds the directory lock, 0: none
    pending_writes,   \* WriteBatch.pending_writes of the batch of the Db
    open_result,      \* result of the last Db::open
    appended,         \* number of records appended by put, delete and commit
    last_put,         \* per user key: value of the last put of this process
                      \* that no delete or batch commit on the key followed
    deleted,          \* keys whose last write was a delete that returned Ok
    how,              \* how the previous process ended
    fresh,            \* no operation has run since the open
    pre_dir,          \* the directory when the interrupted batch was started
    crash_keys,       \* keys of the interrupted batch
    merges,           \* number of calls of merge
    stops,            \* number of processes stopped inside merge or installation
    merge_state,      \* "merged": a merge ran and no write followed it,
                      \* "stopped": a process stopped inside a merge or inside
                      \* the installation of one and no write followed, or "none"
    live_set,         \* the live set when that merge started
    second_result,    \* result of the last Db::open tried while the Db is open
    conc,             \* the threads that call commit concurrently, see ConcInit
    read_only,        \* Db.ctx.opts.read_only of the open Db
    last_call         \* the last call made on the Db and the kind of its result

vars == <<dir, mdir, live, index, active_file, inactive_files, file_id,
          sequence_number, lock_file, pending_writes, open_result, appended,
          last_put, deleted, how, fresh, pre_dir, crash_keys, merges, stops,
          merge_state, live_set, second_result, conc, read_only, last_call>>

dbvars == <<index, active_file, inactive_files, file_id, sequence_number, lock_file>>
ghost == <<last_put, deleted, how, fresh, pre_dir, crash_keys, merge_state, live_set>>
aux == <<merges, stops, second_result, conc>>
mghost == <<merge_state, live_set>>
calls == <<read_only, last_call>>

TheDb == [index |-> index, active_file |-> active_file,
          inactive_files |-> inactive_files, file_id |-> file_id,
          sequence_number |-> sequence_number]

\* the part of the Db that append_entry works on
TheW == [segs |-> dir.segs, active_file |-> active_file,
         inactive_files |-> inactive_files, file_id |-> file_id]

NoValue == <<>>

\* a call on the Db: the method, its arguments and the kind of its result
Call(op, key, value, kind) == [op |-> op, key |-> key, value |-> value, kind |-> kind]
NoCall == Call("none", <<>>, <<>>, "none")

\* The threads of the process that call commit, each on a batch of its own:
\*   pc       : where each thread is inside WriteBatch::commit
\*   pending  : pending_writes of the batch of each thread
\*   order    : the order in which the iteration of commit visits its keys
\*   seq_no   : the local seq_no of each thread
\*   locs     : the locators each thread has collected (keydir_entries)
\*   lock     : the set of the threads that hold Db.batch_commit_lock
\*   tickets  : for each commit, in the order in which the commits took the
\*              mutex, the thread and the sequence number it obtained
\*              (NON_COMMITTED before the fetch-add)
\*   begun    : number of commits started
\*   contended: a commit has waited for the mutex while another held it
\*   rot      : where the thread that holds the write guard of the active
\*              handle is inside the rotation of append_entry: "none",
\*              "fetched" (after file_id.fetch_add) or "inserted" (after
\*              inactive_files.insert)
\*   get      : the thread that calls get: where it is inside Db::get and
\*              read_data_entry, its key, the index entry it obtained and
\*              the result of its last read
\*   late     : the keys another thread has put into the batch of the
\*              committing thread behind the iteration that puts the index
\*              entries, before pending_writes.clear()
\*   sync     : where the thread that calls Db::sync is: "idle" or "called"
ThreadIds == 1..MaxThreads
ConcInit == [pc |-> [t \in ThreadIds |-> "idle"],
             pending |-> [t \in ThreadIds |-> EmptyMap],
             order |-> [t \in ThreadIds |-> <<>>],
             seq_no |-> [t \in ThreadIds |-> NON_COMMITTED],
             locs |-> [t \in ThreadIds |-> <<>>],
             lock |-> {},
             tickets |-> <<>>,
             begun |-> 0,
             contended |-> FALSE,
             rot |-> "none",
             get |-> [pc |-> "idle", key |-> <<>>, entry |-> KeyDirEntry(0, 0, 0),
                      result |-> [kind |-> "none", value |-> <<>>]],
             late |-> {},
             sync |-> "idle"]

Init ==
    /\ dir = EmptyDir
    /\ mdir = NoDir
    /\ live = FALSE
    /\ index = EmptyMap
    /\ active_file = NoDb.active_file
    /\ inactive_files = EmptyMap
    /\ file_id = 0
    /\ sequence_number = 0
    /\ lock_file = 0
    /\ pending_writes = EmptyMap
    /\ open_result = "none"
    /\ appended = 0
    /\ last_put = [k \in UserKeys |-> NoValue]
    /\ deleted = {}
    /\ how = "new"
    /\ fresh = FALSE
    /\ pre_dir = NoDir
    /\ crash_keys = {}
    /\ merges = 0
    /\ stops = 0
    /\ merge_state = "none"
    /\ live_set = {}
    /\ second_result = "none"
    /\ conc = ConcInit
    /\ read_only = FALSE
    /\ last_call = NoCall

(***************************************************************************)
(* Operations of one process on the directory, one after the other.        *)
(***************************************************************************)
SetW(w) ==
    /\ dir' = [dir EXCEPT !.segs = w.segs]
    /\ active_file' = w.active_file
    /\ inactive_files' = w.inactive_files
    /\ file_id' = w.file_id

SetDb(db, lock) ==
    /\ index' = db.index
    /\ active_file' = db.active_file
    /\ inactive_files' = db.inactive_files
    /\ file_id' = db.file_id
    /\ sequence_number' = db.sequence_number
    /\ lock_file' = lock

\* an operation that changes the database ends the state "just opened"
Touched ==
    /\ fresh' = FALSE
    /\ how' = "live"
    /\ pre_dir' = NoDir
    /\ crash_keys' = {}
    /\ merge_state' = "none"
    /\ live_set' = {}

ValidKeyNoLimit(key) == key # <<>>

ValidKey(key) == key # <<>> /\ Len(key) <= max_key_size

\* Db::put
Put(key, value) ==
    /\ live
    /\ pending_writes = EmptyMap
    /\ appended < MaxRecs
    /\ ValidKey(key) /\ Len(value) <= max_value_size
    /\ LET entry == DataEntry(encode_transaction_key(key, NON_COMMITTED), value, "Active")
           Appended(r) == /\ SetW(r.w)
                          /\ index' = IndexPut(index, key, r.loc)
       IN Appended(append_entry(TheW, entry))
    /\ appended' = appended + 1
    /\ last_put' = [last_put EXCEPT ![key] = value]
    /\ deleted' = deleted \ {key}
    /\ Touched
    /\ UNCHANGED <<mdir, live, sequence_number, lock_file, pending_writes, open_result, aux>>

\* Db::delete
Delete(key) ==
    /\ live
    /\ pending_writes = EmptyMap
    /\ ValidKey(key)
    /\ IF key \notin DOMAIN index
       THEN /\ UNCHANGED <<dir, index, active_file, inactive_files, file_id,
                           appended, deleted>>
       ELSE /\ appended < MaxRecs
            /\ LET deleted_entry == DataEntry(encode_transaction_key(key, NON_COMMITTED),
                                              <<>>, "Inactive")
                   Appended(r) == /\ SetW(r.w)
                                  /\ index' = IndexDelete(index, key)
               IN Appended(append_entry(TheW, deleted_entry))
            /\ appended' = appended + 1
            /\ deleted' = deleted \cup {key}
    /\ last_put' = [last_put EXCEPT ![key] = NoValue]
    /\ Touched
    /\ UNCHANGED <<mdir, live, sequence_number, lock_file, pending_writes, open_result, aux>>

\* Db::get; the reads of extract_data_entry move the offset of the handle
Get(key) ==
    /\ live
    /\ active_file' =
                IF key \in DOMAIN index /\ index[key].file_id = file_id
                THEN [active_file EXCEPT !.offset =
                         OffsetAfterExtract(dir.segs[active_file.file_id],
                                            active_file.io, index[key].offset)]
                ELSE active_file
    /\ UNCHANGED <<dir, mdir, live, index, inactive_files, file_id, sequence_number,
                   lock_file, pending_writes, open_result, appended, last_put, deleted,
                   how, fresh, pre_dir, crash_keys, mghost, aux>>

\* WriteBatch::put
BatchPut(key, value) ==
    /\ live
    /\ key # <<>>
    /\ pending_writes' = MapPut(pending_writes, key, DataEntry(key, value, "Active"))
    /\ UNCHANGED <<dir, mdir, live, dbvars, open_result, appended, ghost, aux>>

BatchDeleteAlwaysTombstone(key) ==
    /\ live
    /\ key # <<>>
    /\ pending_writes' = MapPut(pending_writes, key, DataEntry(key, <<>>, "Inactive"))
    /\ UNCHANGED <<dir, mdir, live, dbvars, open_result, appended, ghost, aux>>

\* WriteBatch::delete
BatchDelete(key) ==
    /\ live
    /\ key # <<>>
    /\ pending_writes' =
          IF key \notin DOMAIN index
          THEN [k \in DOMAIN pending_writes \ {key} |-> pending_writes[k]]
          ELSE MapPut(pending_writes, key, DataEntry(key, <<>>, "Inactive"))
    /\ UNCHANGED <<dir, mdir, live, dbvars, open_result, appended, ghost, aux>>

\* the orders in which an iteration may visit the keys of a DashMap
Orders(S) == {f \in [1..Cardinality(S) -> S] : \A x \in S : \E i \in DOMAIN f : f[i] = x}

\* the records commit appends for the pending writes, visited in order
BatchEntries(pending, order, seq_no) ==
    [i \in DOMAIN order |->
        DataEntry(encode_transaction_key(pending[order[i]].key, seq_no),
                  pending[order[i]].value, pending[order[i]].state)]

\* the index after the insertion of the locators of the Active pending writes
RECURSIVE IndexBatch(_, _, _, _)
IndexBatch(idx, pending, order, locs) ==
    IF order = <<>> THEN idx
    ELSE LET item == pending[Head(order)]
         IN IndexBatch(IF is_active(item) THEN IndexPut(idx, item.key, Head(locs)) ELSE idx,
                       pending, Tail(order), Tail(locs))

ExceedsMaxBatchNumOffByOne(pending) == Cardinality(DOMAIN pending) >= max_batch_num

\* commit refuses a batch of more than max_batch_num pending writes
ExceedsMaxBatchNum(pending) == Cardinality(DOMAIN pending) > max_batch_num

\* WriteBatch::commit
Commit ==
    /\ live
    /\ IF pending_writes = EmptyMap
       THEN UNCHANGED <<dir, dbvars, pending_writes, appended, ghost>>
       ELSE IF ExceedsMaxBatchNum(pending_writes)
       THEN UNCHANGED <<dir, dbvars, pending_writes, appended, ghost>>
       ELSE \E order \in Orders(DOMAIN pending_writes) :
            LET seq_no == sequence_number
                committed_entry == DataEntry(encode_transaction_key(COMMITTED_KEY, seq_no),
                                             <<>>, "Committed")
                Marked(r, c) ==
                    /\ SetW(c.w)
                    /\ index' = IndexBatch(index, pending_writes, order, r.locs)
                Appended(r) == Marked(r, append_entry(r.w, committed_entry))
            IN /\ appended + Len(order) + 1 <= MaxRecs
               /\ sequence_number' = seq_no + 1
               /\ Appended(AppendAll(TheW, BatchEntries(pending_writes, order, seq_no),
                                     <<>>))
               /\ pending_writes' = EmptyMap
               /\ appended' = appended + Len(order) + 1
               /\ last_put' = [k \in UserKeys |->
                                 IF k \in DOMAIN pending_writes THEN NoValue ELSE last_put[k]]
               /\ deleted' = deleted \ DOMAIN pending_writes
               /\ Touched
               /\ UNCHANGED lock_file
    /\ UNCHANGED <<mdir, live, open_result, aux>>

\* the process is gone: nothing of the Db is left, the lock is released
Stopped ==
    /\ live' = FALSE
    /\ SetDb(NoDb, 0)
    /\ pending_writes' = EmptyMap
    /\ last_put' = [k \in UserKeys |-> NoValue]
    /\ fresh' = FALSE
    /\ open_result' = "none"
    /\ second_result' = "none"
    /\ conc' = ConcInit
    /\ UNCHANGED <<merges, stops>>

\* the process stops inside commit, after n of its entries were appended and
\* before the commit marker
CommitCrash ==
    /\ live
    /\ pending_writes # EmptyMap
    /\ Cardinality(DOMAIN pending_writes) <= max_batch_num
    /\ \E order \in Orders(DOMAIN pending_writes) : \E n \in 1..Len(order) :
          /\ appended + n <= MaxRecs
          /\ dir' = [dir EXCEPT !.segs =
                        AppendAll(TheW, SubSeq(BatchEntries(pending_writes, order,
                                                            sequence_number), 1, n),
                                  <<>>).w.segs]
          /\ appended' = appended + n
    /\ Stopped
    /\ how' = "commit_crash"
    /\ pre_dir' = dir
    /\ crash_keys' = DOMAIN pending_writes
    /\ deleted' = {}
    /\ UNCHANGED <<mdir, mghost>>

\* Db::close followed by the drop of the Db
Close ==
    /\ live
    /\ pending_writes = EmptyMap
    /\ Stopped
    /\ how' = "closed"
    /\ pre_dir' = NoDir
    /\ crash_keys' = {}
    /\ UNCHANGED <<dir, mdir, appended, deleted, mghost>>

\* the process stops between two operations
Crash ==
    /\ live
    /\ Stopped
    /\ how' = "crashed"
    /\ pre_dir' = NoDir
    /\ crash_keys' = {}
    /\ deleted' = {}
    /\ UNCHANGED <<dir, mdir, appended, mghost>>

InodesInUse == {dir.lock, mdir.lock, lock_file} \ {0}

\* Db::open by a new process
Open ==
    /\ ~live
    /\ LET Opened(r) ==
               /\ dir' = r.d
               /\ mdir' = r.m
               /\ live' = (r.kind = "Ok")
               /\ SetDb(r.db, r.lock_file)
               /\ fresh' = (r.kind = "Ok")
               /\ open_result' = r.kind
       IN Opened(open(dir, mdir, {}, InodesInUse))
    /\ UNCHANGED <<pending_writes, appended, last_put, deleted, how, pre_dir, crash_keys,
                   mghost, aux>>

\* Db::merge
Merge ==
    /\ live
    /\ pending_writes = EmptyMap
    /\ merges < MaxMerges
    /\ LET Merged(r) ==
               /\ SetW(r.w)
               /\ mdir' = r.m
               /\ merge_state' = IF r.kind = "Ok" THEN "merged" ELSE merge_state
               /\ live_set' = IF r.kind = "Ok" THEN LiveSet(TheDb, dir.segs) ELSE live_set
       IN Merged(merge(TheDb, dir, mdir, lock_file, InodesInUse,
                       Cardinality(DOMAIN index) + 1, "written"))
    /\ merges' = merges + 1
    /\ fresh' = FALSE
    /\ how' = "live"
    /\ UNCHANGED <<live, index, sequence_number, lock_file, pending_writes, open_result,
                   appended, last_put, deleted, pre_dir, crash_keys, stops,
                   second_result, conc>>

\* the process stops inside merge: after the merge Db is opened ("opened"),
\* after the rotation and limit copies ("copying"), or after merge_finished
\* is created and before it is written ("created")
MergeCrash(step, limit) ==
    /\ live
    /\ pending_writes = EmptyMap
    /\ merges < MaxMerges
    /\ stops < MaxStops
    /\ step # "copying" => limit = 0
    /\ ~(active_file.offset = 0 /\ DOMAIN inactive_files = {})
    /\ LET Stop(r, o) ==
               /\ r.kind = "Ok"
               /\ dir' = IF step = "opened" THEN dir ELSE [dir EXCEPT !.segs = r.w.segs]
               /\ mdir' = IF step = "opened" THEN o.d ELSE r.m
       IN Stop(merge(TheDb, dir, mdir, lock_file, InodesInUse,
                     IF step = "copying" THEN limit ELSE Cardinality(DOMAIN index) + 1,
                     IF step = "created" THEN "empty" ELSE "absent"),
               open(mdir, NoDir, {lock_file}, InodesInUse))
    /\ merges' = merges + 1
    /\ stops' = stops + 1
    /\ merge_state' = "stopped"
    /\ live_set' = LiveSet(TheDb, dir.segs)
    /\ live' = FALSE
    /\ SetDb(NoDb, 0)
    /\ last_put' = [k \in UserKeys |-> NoValue]
    /\ fresh' = FALSE
    /\ open_result' = "none"
    /\ second_result' = "none"
    /\ conc' = ConcInit
    /\ how' = "merge_crash"
    /\ deleted' = {}
    /\ UNCHANGED <<pending_writes, appended, pre_dir, crash_keys>>

\* the subsets of the files of a merge directory
FileSets(m) ==
    {f \in [segs : SUBSET DOMAIN m.segs, hint : BOOLEAN, fin : BOOLEAN, lock : BOOLEAN] :
        /\ f.hint => m.has_hint
        /\ f.fin => m.has_fin
        /\ f.lock => m.lock # 0}

\* a new process stops inside Db::open, in process_merge_files: in the loop
\* that removes the merged segments, or in the loop of renames, which visits
\* the files of the merge directory in the order read_dir gives them
OpenCrash(deleted_below, moved) ==
    /\ ~live
    /\ stops < MaxStops
    /\ MergeIsFinished(mdir)
    /\ deleted_below \in 0..UnmergedFileId(mdir)
    /\ moved \in FileSets(mdir)
    /\ deleted_below < UnmergedFileId(mdir) => moved = [segs |-> {}, hint |-> FALSE,
                                                       fin |-> FALSE, lock |-> FALSE]
    /\ LET lock == IF dir.lock = 0 THEN FreshInode(InodesInUse) ELSE dir.lock
           r == InstallSteps([dir EXCEPT !.lock = lock], mdir, deleted_below, moved)
       IN /\ dir' = r.d
          /\ mdir' = r.m
    /\ merge_state' = IF merge_state = "none" THEN "none" ELSE "stopped"
    /\ how' = "install_crash"
    /\ fresh' = FALSE
    /\ open_result' = "none"
    /\ stops' = stops + 1
    /\ UNCHANGED <<live, dbvars, pending_writes, appended, last_put, deleted, pre_dir,
                   crash_keys, merges, live_set, second_result, conc>>

\* Db::open on the directory by a second caller while the Db is open; the Db
\* it may get is dropped at once
OpenSecond ==
    /\ live
    /\ LET Opened(r) ==
               /\ dir' = r.d
               /\ mdir' = r.m
               /\ second_result' = r.kind
               /\ IF r.kind = "Unsupported"
                  THEN UNCHANGED ghost
                  ELSE Touched /\ UNCHANGED <<last_put, deleted>>
       IN Opened(open(dir, mdir, {lock_file}, InodesInUse))
    /\ UNCHANGED <<live, dbvars, pending_writes, open_result, appended, merges, stops, conc>>

\* one process after the other, each closed before the next opens
Next ==
    \/ UNCHANGED calls /\ \E key \in UserKeys, value \in Values : Put(key, value)
    \/ UNCHANGED calls /\ \E key \in UserKeys : Delete(key)
    \/ UNCHANGED calls /\ \E key \in UserKeys : Get(key)
    \/ UNCHANGED calls /\ \E key \in UserKeys, value \in Values : BatchPut(key, value)
    \/ UNCHANGED calls /\ \E key \in UserKeys : BatchDelete(key)
    \/ UNCHANGED calls /\ Commit
    \/ UNCHANGED calls /\ Close
    \/ UNCHANGED calls /\ Open

Spec == Init /\ [][Next]_vars

\* processes that may also stop at any point, inside commit included
NextCrash ==
    \/ UNCHANGED calls /\ \E key \in UserKeys, value \in Values : Put(key, value)
    \/ UNCHANGED calls /\ \E key \in UserKeys : Delete(key)
    \/ UNCHANGED calls /\ \E key \in UserKeys, value \in Values : BatchPut(key, value)
    \/ UNCHANGED calls /\ \E key \in UserKeys : BatchDelete(key)
    \/ UNCHANGED calls /\ Commit
    \/ UNCHANGED calls /\ CommitCrash
    \/ UNCHANGED calls /\ Crash
    \/ UNCHANGED calls /\ Close
    \/ UNCHANGED calls /\ Open

SpecCrash == Init /\ [][NextCrash]_vars

\* one process after the other, with merges
NextMerge ==
    \/ UNCHANGED calls /\ \E key \in UserKeys, value \in Values : Put(key, value)
    \/ UNCHANGED calls /\ \E key \in UserKeys : Delete(key)
    \/ UNCHANGED calls /\ Merge
    \/ UNCHANGED calls /\ Close
    \/ UNCHANGED calls /\ Open

SpecMerge == Init /\ [][NextMerge]_vars

\* a few writes and merges, then a process that stops inside a merge or
\* inside its installation, then opens
NextMergeCrash ==
    \/ UNCHANGED calls /\ stops = 0 /\ appended < MaxMergeRecs /\
          \E key \in UserKeys, value \in Values : Put(key, value)
    \/ UNCHANGED calls /\ stops = 0 /\ appended < MaxMergeRecs /\ \E key \in UserKeys : Delete(key)
    \/ UNCHANGED calls /\ stops = 0 /\ Merge
    \/ UNCHANGED calls /\ \E step \in {"opened", "copying", "created"}, limit \in 0..Cardinality(UserKeys) :
          MergeCrash(step, limit)
    \/ UNCHANGED calls /\ \E deleted_below \in 0..MaxFileId, moved \in FileSets(mdir) :
          OpenCrash(deleted_below, moved)
    \/ UNCHANGED calls /\ Close
    \/ UNCHANGED calls /\ Open

SpecMergeCrash == Init /\ [][NextMergeCrash]_vars

\* merges and second callers of open
NextLock ==
    \/ UNCHANGED calls /\ \E key \in UserKeys, value \in Values : Put(key, value)
    \/ UNCHANGED calls /\ Merge
    \/ UNCHANGED calls /\ OpenSecond
    \/ UNCHANGED calls /\ Close
    \/ UNCHANGED calls /\ Open

SpecLock == Init /\ [][NextLock]_vars

(***************************************************************************)
(* Threads of one process that call commit concurrently.  Each step is one *)
(* atomic access of commit to the shared Db: the mutex, the fetch-add on   *)
(* the sequence number, one append_entry under the write lock of the       *)
(* active file, the index.                                                 *)
(***************************************************************************)
\* the batches a thread may commit: puts of Val1 on one or more user keys
Batches == {b \in SUBSET UserKeys : b # {} /\ Cardinality(b) <= max_batch_num}

\* commit, up to the mutex: the batch is not empty and not over max_batch_num
BeginCommit(t, keys, order) ==
    /\ live
    /\ conc.pc[t] = "idle"
    /\ conc.begun < MaxCommits
    /\ conc' = [conc EXCEPT !.pc[t] = "wait",
                            !.pending[t] = [k \in keys |-> DataEntry(k, Val1, "Active")],
                            !.order[t] = order,
                            !.locs[t] = <<>>,
                            !.begun = @ + 1]
    /\ last_put' = [k \in UserKeys |-> IF k \in keys THEN NoValue ELSE last_put[k]]
    /\ deleted' = deleted \ keys
    /\ Touched
    /\ UNCHANGED <<dir, mdir, live, dbvars, pending_writes, open_result, appended,
                   merges, stops, second_result>>

\* a mutex that every thread may take at any time
MutexIgnored(t) == TRUE

\* batch_commit_lock.lock() may return when no thread holds the mutex
MutexFree(t) == conc.lock = {}

\* let _lock = self.db.batch_commit_lock.lock()
LockCommit(t) ==
    /\ conc.pc[t] = "wait"
    /\ MutexFree(t)
    /\ conc' = [conc EXCEPT !.pc[t] = "locked",
                            !.lock = @ \cup {t},
                            !.tickets = Append(@, [thread |-> t, seq_no |-> NON_COMMITTED])]
    /\ UNCHANGED <<dir, mdir, live, dbvars, pending_writes, open_result, appended,
                   ghost, merges, stops, second_result>>

\* the ticket of the commit thread t is in
TicketOf(t) == CHOOSE i \in DOMAIN conc.tickets :
                  /\ conc.tickets[i].thread = t
                  /\ \A j \in DOMAIN conc.tickets : conc.tickets[j].thread = t => j <= i

\* let seq_no = self.db.sequence_number.fetch_add(1, SeqCst)
FetchSeqNo(t) ==
    /\ conc.pc[t] = "locked"
    /\ sequence_number' = sequence_number + 1
    /\ conc' = [conc EXCEPT !.pc[t] = "append",
                            !.seq_no[t] = sequence_number,
                            !.tickets[TicketOf(t)].seq_no = sequence_number]
    /\ UNCHANGED <<dir, mdir, live, index, active_file, inactive_files, file_id,
                   lock_file, pending_writes, open_result, appended, ghost, merges,
                   stops, second_result>>

AppendPendingAndIndex(t) ==
    /\ conc.pc[t] = "append"
    /\ Len(conc.locs[t]) < Len(conc.order[t])
    /\ LET i == Len(conc.locs[t]) + 1
           entry == BatchEntries(conc.pending[t], conc.order[t], conc.seq_no[t])[i]
           r == append_entry(TheW, entry)
       IN /\ SetW(r.w)
          /\ index' = IndexPut(index, conc.order[t][i], r.loc)
          /\ conc' = [conc EXCEPT !.locs[t] = Append(@, r.loc)]
    /\ appended' = appended + 1
    /\ UNCHANGED <<mdir, live, sequence_number, lock_file, pending_writes,
                   open_result, ghost, merges, stops, second_result>>

\* one round of the try_fold: append_entry of the next pending write
AppendPending(t) ==
    /\ conc.pc[t] = "append"
    /\ Len(conc.locs[t]) < Len(conc.order[t])
    /\ LET i == Len(conc.locs[t]) + 1
           entry == BatchEntries(conc.pending[t], conc.order[t], conc.seq_no[t])[i]
           r == append_entry(TheW, entry)
       IN /\ SetW(r.w)
          /\ conc' = [conc EXCEPT !.locs[t] = Append(@, r.loc)]
    /\ appended' = appended + 1
    /\ UNCHANGED <<mdir, live, index, sequence_number, lock_file, pending_writes,
                   open_result, ghost, merges, stops, second_result>>

\* append_entry of the commit marker
AppendCommitted(t) ==
    /\ conc.pc[t] = "append"
    /\ Len(conc.locs[t]) = Len(conc.order[t])
    /\ LET committed_entry == DataEntry(encode_transaction_key(COMMITTED_KEY,
                                                               conc.seq_no[t]),
                                        <<>>, "Committed")
           c == append_entry(TheW, committed_entry)
       IN SetW(c.w)
    /\ conc' = [conc EXCEPT !.pc[t] = "index"]
    /\ appended' = appended + 1
    /\ UNCHANGED <<mdir, live, index, sequence_number, lock_file, pending_writes,
                   open_result, ghost, merges, stops, second_result>>

\* the index puts, pending_writes.clear() and the release of the mutex at
\* the return of commit
EndCommit(t) ==
    /\ conc.pc[t] = "index"
    /\ index' = IndexBatch(index, conc.pending[t], conc.order[t], conc.locs[t])
    /\ conc' = [conc EXCEPT !.pc[t] = "idle",
                            !.pending[t] = EmptyMap,
                            !.order[t] = <<>>,
                            !.locs[t] = <<>>,
                            !.lock = @ \ {t},
                            !.contended = @ \/ \E u \in ThreadIds : conc.pc[u] = "wait"]
    /\ UNCHANGED <<dir, mdir, live, active_file, inactive_files, file_id,
                   sequence_number, lock_file, pending_writes, open_result, appended,
                   ghost, merges, stops, second_result>>

NextConc ==
    \/ UNCHANGED calls /\ Open
    \/ UNCHANGED calls /\ \E t \in ThreadIds, keys \in Batches : \E order \in Orders(keys) :
          BeginCommit(t, keys, order)
    \/ UNCHANGED calls /\ \E t \in ThreadIds : LockCommit(t)
    \/ UNCHANGED calls /\ \E t \in ThreadIds : FetchSeqNo(t)
    \/ UNCHANGED calls /\ \E t \in ThreadIds : AppendPending(t)
    \/ UNCHANGED calls /\ \E t \in ThreadIds : AppendCommitted(t)
    \/ UNCHANGED calls /\ \E t \in ThreadIds : EndCommit(t)
    \/ UNCHANGED calls /\ \E key \in UserKeys : Get(key)

SpecConc == Init /\ [][NextConc]_vars

(***************************************************************************)
(* Calls with the kind of their result: on valid and on invalid arguments, *)
(* on a Db opened read-only or not, on a Db closed before it is dropped.   *)
(***************************************************************************)
KeyLong == [i \in 1..(max_key_size + 1) |-> 99]
ValLong == [i \in 1..(max_value_size + 1) |-> 51]
AnyKeys == UserKeys \cup {<<>>, KeyLong}
AnyValues == Values \cup {ValLong}

Returns(op, key, value, kind) == last_call' = Call(op, key, value, kind)

\* a call that returns before it has touched the Db
Refused ==
    UNCHANGED <<dir, mdir, live, dbvars, pending_writes, open_result, appended, ghost,
                aux, read_only>>

\* Db::open with the option read_only
OpenCall(ro) ==
    /\ Open
    /\ read_only' = (ro /\ open_result' = "Ok")
    /\ Returns("open", <<>>, <<>>, open_result')

PutCallNoReadOnlyTest(key, value) ==
    /\ live
    /\ dir.exists
    /\ IF ~ValidKey(key) \/ Len(value) > max_value_size
       THEN Returns("put", key, value, "Unsupported") /\ Refused
       ELSE Put(key, value) /\ Returns("put", key, value, "Ok") /\ UNCHANGED read_only

\* Db::put, from the read-only test on
PutCall(key, value) ==
    /\ live
    /\ dir.exists
    /\ IF read_only
       THEN Returns("put", key, value, "PermissionDenied") /\ Refused
       ELSE IF ~ValidKey(key) \/ Len(value) > max_value_size
       THEN Returns("put", key, value, "Unsupported") /\ Refused
       ELSE Put(key, value) /\ Returns("put", key, value, "Ok") /\ UNCHANGED read_only

\* Db::delete, from the read-only test on
DeleteCall(key) ==
    /\ live
    /\ dir.exists
    /\ IF read_only
       THEN Returns("delete", key, <<>>, "PermissionDenied") /\ Refused
       ELSE IF ~ValidKey(key)
       THEN Returns("delete", key, <<>>, "Unsupported") /\ Refused
       ELSE Delete(key) /\ Returns("delete", key, <<>>, "Ok") /\ UNCHANGED read_only

\* WriteBatch::put and WriteBatch::delete, from the test of the key on
BatchPutCall(key, value) ==
    /\ live
    /\ IF key = <<>>
       THEN Returns("batch_put", key, value, "Unsupported") /\ Refused
       ELSE BatchPut(key, value) /\ Returns("batch_put", key, value, "Ok")
                                 /\ UNCHANGED read_only

BatchDeleteCall(key) ==
    /\ live
    /\ IF key = <<>>
       THEN Returns("batch_delete", key, <<>>, "Unsupported") /\ Refused
       ELSE BatchDelete(key) /\ Returns("batch_delete", key, <<>>, "Ok")
                             /\ UNCHANGED read_only

\* WriteBatch::commit with its result
CommitCall ==
    /\ dir.exists
    /\ Commit
    /\ Returns("commit", <<>>, <<>>,
               IF pending_writes # EmptyMap /\ ExceedsMaxBatchNum(pending_writes)
               THEN "Unsupported" ELSE "Ok")
    /\ UNCHANGED read_only

\* Db::merge with its result
MergeCall ==
    /\ dir.exists
    /\ Merge
    /\ Returns("merge", <<>>, <<>>,
               merge(TheDb, dir, mdir, lock_file, InodesInUse,
                     Cardinality(DOMAIN index) + 1, "written").kind)
    /\ UNCHANGED read_only

closeNoUnlock(db, dir_exists, lock) ==
    IF ~dir_exists THEN [kind |-> "Ok", lock_file |-> lock]
    ELSE IF db.active_file.io = "Mmap" THEN [kind |-> "Panic", lock_file |-> lock]
    ELSE [kind |-> "Ok", lock_file |-> lock]

\* Db::close on the Db record db: nothing when the directory is gone, else
\* the sync of the active file and the unlock of the lock file.  The sync of
\* a memory-mapped file is not implemented.
close(db, dir_exists, lock) ==
    IF ~dir_exists THEN [kind |-> "Ok", lock_file |-> lock]
    ELSE IF db.active_file.io = "Mmap" THEN [kind |-> "Panic", lock_file |-> lock]
    ELSE [kind |-> "Ok", lock_file |-> 0]

\* Db::close called by the user; the Db is not dropped
CloseCall ==
    /\ live
    /\ lock_file' = close(TheDb, dir.exists, lock_file).lock_file
    /\ Returns("close", <<>>, <<>>, close(TheDb, dir.exists, lock_file).kind)
    /\ UNCHANGED <<dir, mdir, live, index, active_file, inactive_files, file_id,
                   sequence_number, pending_writes, open_result, appended, ghost, aux,
                   read_only>>

\* the drop of the Db: Drop runs close and the lock file is closed
DropCall ==
    /\ Close
    /\ read_only' = FALSE
    /\ Returns("drop", <<>>, <<>>, close(TheDb, dir.exists, lock_file).kind)

\* the directory is removed from outside, as the test of close does
RemoveDir ==
    /\ dir.exists
    /\ dir' = NoDir
    /\ Returns("remove_dir", <<>>, <<>>, "Ok")
    /\ UNCHANGED <<mdir, live, dbvars, pending_writes, open_result, appended, ghost, aux,
                   read_only>>

\* Db::open by a second caller, with its result
OpenSecondCall ==
    /\ dir.exists
    /\ OpenSecond
    /\ Returns("open_second", <<>>, <<>>, second_result')
    /\ UNCHANGED read_only

\* calls with arguments of any size on a Db opened read-only or not
NextCalls ==
    \/ \E ro \in BOOLEAN : OpenCall(ro)
    \/ appended < MaxCallRecs /\ \E key \in AnyKeys, value \in AnyValues : PutCall(key, value)
    \/ appended < MaxCallRecs /\ \E key \in AnyKeys : DeleteCall(key)
    \/ appended < MaxCallRecs /\ \E key \in AnyKeys : BatchPutCall(key, Val1)
    \/ appended < MaxCallRecs /\ \E key \in AnyKeys : BatchDeleteCall(key)
    \/ CommitCall
    \/ DropCall

SpecCalls == Init /\ [][NextCalls]_vars

\* a Db that is closed, dropped, or whose directory is removed; the caller
\* makes no other call on a Db after close has released its lock, and the
\* second caller opens the directory after the close
NextClose ==
    \/ OpenCall(FALSE)
    \/ lock_file # 0 /\ \E key \in UserKeys : PutCall(key, Val1)
    \/ lock_file # 0 /\ MergeCall
    \/ CloseCall
    \/ DropCall
    \/ RemoveDir
    \/ lock_file = 0 /\ OpenSecondCall

SpecClose == Init /\ [][NextClose]_vars

\* one bit of a byte altered
FlipByte(b) == IF b % 2 = 0 THEN b + 1 ELSE b - 1

\* the record on disk after the byte at position p of its key, of its value
\* or of its checksum was altered
Altered(e, field, p) ==
    [key |-> IF field = "key" THEN [e.key EXCEPT ![p] = FlipByte(e.key[p])] ELSE e.key,
     value |-> IF field = "value" THEN [e.value EXCEPT ![p] = FlipByte(e.value[p])]
               ELSE e.value,
     state |-> e.state,
     crc |-> IF field = "crc" THEN FlipByte(StoredCrc(e)) ELSE StoredCrc(e)]

IsAltered(e) == "crc" \in DOMAIN e

\* the positions <<file id, number>> of the records of a directory
Positions(d) == {<<i, j>> : i \in DOMAIN d.segs, j \in 1..MaxRecs}
                   \cap UNION {{<<i, j>> : j \in DOMAIN d.segs[i]} : i \in DOMAIN d.segs}

\* a byte of a record of a segment file is altered on disk, from outside;
\* last_call keeps which bytes were altered
Corrupt(pos, field, p) ==
    /\ dir.exists
    /\ pos \in Positions(dir)
    /\ \A q \in Positions(dir) : ~IsAltered(dir.segs[q[1]][q[2]])
    /\ LET e == dir.segs[pos[1]][pos[2]]
       IN /\ field = "key" => p \in DOMAIN e.key
          /\ field = "value" => p \in DOMAIN e.value
          /\ field = "crc" => p = 1
          /\ dir' = [dir EXCEPT !.segs[pos[1]][pos[2]] = Altered(e, field, p)]
    /\ Returns("alter", <<>>, <<>>, field)
    /\ UNCHANGED <<mdir, live, dbvars, pending_writes, open_result, appended, ghost, aux,
                   read_only>>

\* puts of records that no open loses, gets, close and open, with one byte
\* of one record altered on disk at any point
NextCorrupt ==
    \/ UNCHANGED calls /\ appended < MaxCallRecs /\ \E value \in Values : Put(KeyB, value)
    \/ UNCHANGED calls /\ Get(KeyB)
    \/ UNCHANGED calls /\ Close
    \/ UNCHANGED calls /\ Open
    \/ \E i \in 0..MaxFileId, j \in 1..MaxRecs, field \in {"key", "value", "crc"},
          p \in 1..(max_key_size + 1) : Corrupt(<<i, j>>, field, p)

SpecCorrupt == Init /\ [][NextCorrupt]_vars

(***************************************************************************)
(* The log order: segments by ascending id, records by offset, a batch     *)
(* applied at the position of its commit marker.  LogState gives, for      *)
(* every user key, the most recent write in that order: value is NoValue   *)
(* when the key was never written or its last write is a delete, seq_no    *)
(* is the sequence number of the record of that write.                     *)
(***************************************************************************)
RECURSIVE Flatten(_, _)
Flatten(segs, ids) ==
    IF ids = <<>> THEN <<>> ELSE segs[Head(ids)] \o Flatten(segs, Tail(ids))

LogOf(segs) == Flatten(segs, SortedSeq(DOMAIN segs))

NoWrite == [value |-> NoValue, seq_no |-> 0, written |-> FALSE]

RECURSIVE ApplyWrites(_, _)
ApplyWrites(st, writes) ==
    IF writes = <<>> THEN st
    ELSE LET e == Head(writes)
             d == decode_transaction_key(e.key)
             w == [value |-> IF e.state = "Active" THEN e.value ELSE NoValue,
                   seq_no |-> d.seq_no, written |-> TRUE]
         IN ApplyWrites(IF d.key \in DOMAIN st THEN [st EXCEPT ![d.key] = w] ELSE st,
                        Tail(writes))

RECURSIVE Replay(_, _, _)
Replay(log, st, buf) ==
    IF log = <<>> THEN st
    ELSE LET e == Head(log)
             d == decode_transaction_key(e.key)
         IN IF d.seq_no = NON_COMMITTED
            THEN Replay(Tail(log), ApplyWrites(st, <<e>>), buf)
            ELSE IF e.state = "Committed"
            THEN Replay(Tail(log),
                        ApplyWrites(st, IF d.seq_no \in DOMAIN buf THEN buf[d.seq_no] ELSE <<>>),
                        [q \in DOMAIN buf \ {d.seq_no} |-> buf[q]])
            ELSE Replay(Tail(log), st,
                        MapPut(buf, d.seq_no,
                               Append(IF d.seq_no \in DOMAIN buf THEN buf[d.seq_no] ELSE <<>>, e)))

LogState(segs) == Replay(LogOf(segs), [k \in UserKeys |-> NoWrite], EmptyMap)

\* every sequence number of a record of the directory
SeqNosOnDisk(segs) ==
    UNION {{decode_transaction_key(segs[i][j].key).seq_no : j \in 1..Len(segs[i])} :
           i \in DOMAIN segs}

\* what get returns for a key in the current state
GetNow(key) == get(TheDb, dir.segs, key)

\* the results of get that tell the caller that the key has no value: the
\* index has no entry, or the record it points at is a tombstone
NotFound(r) == r.kind \in {"KeyNotFound", "EntryRemoved"}

(***************************************************************************)
(* Claims.                                                                 *)
(***************************************************************************)

\* C1: within one process get(k) returns the value of the most recent
\* successful put(k, v) that no delete(k) or batch commit on k followed.
C1_GetReturnsLastPut ==
    live => \A k \in UserKeys :
                last_put[k] # NoValue => GetNow(k) = Result("Ok", last_put[k])

\* C2: after close and reopen, get(k) returns for every key the value of the
\* most recent write to k in log order, and not-found when that write is a
\* delete.
C2_ReopenReturnsLastWrite ==
    (live /\ fresh /\ how = "closed") =>
        \A k \in UserKeys :
            LET w == LogState(dir.segs)[k]
            IN IF w.value = NoValue THEN NotFound(GetNow(k))
               ELSE GetNow(k) = Result("Ok", w.value)

\* C3: after delete(k) returned Ok on a key that was put, get(k) returns
\* not-found, also after close and reopen.
C3_DeletedStaysNotFound ==
    live => \A k \in deleted : NotFound(GetNow(k))

\* C4: when the process stopped inside commit before the commit marker was
\* appended, the index entry and the get result of every key of the batch
\* are after reopen what they are after a reopen of the directory as it was
\* when the batch was started.
C4_InterruptedBatchInvisible ==
    (live /\ fresh /\ how = "commit_crash") =>
        LET ref == open(pre_dir, NoDir, {}, {})
        IN ref.kind = "Ok" =>
              \A k \in crash_keys :
                  /\ IndexGet(index, k) = IndexGet(ref.db.index, k)
                  /\ GetNow(k) = get(ref.db, ref.d.segs, k)

\* C5: when the commit marker of a batch is on disk, the reopen succeeds and
\* every key whose most recent write in log order is a put of a committed
\* batch returns the value of that put.
C5_CommittedBatchApplied ==
    /\ (how = "closed" /\ ~live) => open_result # "Panic"
    /\ (live /\ fresh /\ how = "closed") =>
          \A k \in UserKeys :
              LET w == LogState(dir.segs)[k]
              IN (w.seq_no # NON_COMMITTED /\ w.value # NoValue) =>
                     GetNow(k) = Result("Ok", w.value)

\* C6: after merge returns Ok, a close and a reopen of the directory give the
\* live set the Db had when the merge started: no key lost, no value changed,
\* no deleted key back.
C6_MergePreservesLiveSet ==
    (live /\ fresh /\ how = "closed" /\ merge_state = "merged") =>
        LiveSet(TheDb, dir.segs) = live_set

\* C7: when a process stopped inside merge or inside the installation of a
\* finished merge, every later successful open gives the live set the Db had
\* when the merge started.
C7_MergeStopIsSafe ==
    (live /\ fresh /\ merge_state = "stopped") =>
        LiveSet(TheDb, dir.segs) = live_set

\* C8: while a Db is open on the directory, a second Db::open on it fails
\* with Unsupported, also after an installation moved the merge directory's
\* file.lock into the directory.
C8_SecondOpenFails ==
    live => second_result \in {"none", "Unsupported"}

\* C9: after every open the next sequence number is greater than the
\* sequence number of every record of every segment of the directory.
C9_NextSeqAboveDisk ==
    (live /\ fresh) => \A q \in SeqNosOnDisk(dir.segs) : q < sequence_number

\* the positions in the log of the records with sequence number q
BatchPositions(log, q) ==
    {i \in 1..Len(log) : decode_transaction_key(log[i].key).seq_no = q}

MarkerPositions(log, q) == {i \in BatchPositions(log, q) : log[i].state = "Committed"}

\* C10: under every interleaving of concurrent commits of different batches
\* the commits get distinct sequence numbers that increase in the order in
\* which the commits took the mutex, and in the log the records of one batch
\* are contiguous, its commit marker last.
C10_CommitsSerialized ==
    /\ \A i, j \in DOMAIN conc.tickets :
          (i < j /\ conc.tickets[i].seq_no # NON_COMMITTED
                 /\ conc.tickets[j].seq_no # NON_COMMITTED)
              => conc.tickets[i].seq_no < conc.tickets[j].seq_no
    /\ LET log == LogOf(dir.segs)
       IN \A q \in SeqNosOnDisk(dir.segs) \ {NON_COMMITTED} :
             LET P == BatchPositions(log, q)
                 M == MarkerPositions(log, q)
             IN /\ \A i, j \in P : \A k \in i..j : k \in P
                /\ Cardinality(M) <= 1
                /\ \A m \in M : \A i \in P : i <= m

\* two commits that contended for the mutex have both written their batch
C10_Witness ==
    /\ conc.contended
    /\ \A t \in ThreadIds : conc.pc[t] = "idle"
    /\ LET log == LogOf(dir.segs)
       IN Cardinality({q \in SeqNosOnDisk(dir.segs) :
                          MarkerPositions(log, q) # {} /\
                          Cardinality(BatchPositions(log, q)) > 1}) >= 2

\* every file id is below ten, the range in which IdToString is its decimal form
FileIdsInRange ==
    /\ file_id <= MaxFileId
    /\ \A i \in DOMAIN dir.segs \cup DOMAIN mdir.segs : i <= MaxFileId

\* the records that start at the offset of the locator loc in the segment
\* it names
LocatedRecords(segs, loc) ==
    IF loc.file_id \in DOMAIN segs
    THEN {segs[loc.file_id][i] : i \in RecordsAt(segs[loc.file_id], loc.offset)}
    ELSE {}

\* the locator names a record of user key key, with the length of that record
NamesRecord(segs, loc, key) ==
    \E e \in LocatedRecords(segs, loc) :
        /\ decode_transaction_key(e.key).key = key
        /\ EncodedLen(e) = loc.size

\* the Db after the step
DbAfter == [index |-> index', active_file |-> active_file',
            inactive_files |-> inactive_files', file_id |-> file_id',
            sequence_number |-> sequence_number']

\* C11: a locator that append_entry returned for a record of key k (the
\* index holds it from then on) names a record of k with the locator's
\* length in a segment of the directory and read_data_entry reads that
\* record through it; a locator that did so keeps doing so over the later
\* appends and rotations of the Db.
C11_LocatorNamesRecord ==
    [][(live /\ live') =>
          \A k \in DOMAIN index' :
             (\/ k \notin DOMAIN index
              \/ index[k] # index'[k]
              \/ /\ NamesRecord(dir.segs, index[k], k)
                 /\ read_data_entry(TheDb, dir.segs, index[k]).kind = "Ok")
             => /\ NamesRecord(dir'.segs, index'[k], k)
                /\ read_data_entry(DbAfter, dir'.segs, index'[k]).kind = "Ok"
                /\ last_put'[k] # NoValue =>
                      read_data_entry(DbAfter, dir'.segs, index'[k]).value = last_put'[k]]_vars

\* the locator names, in a segment of the directory, a record of state
\* Active whose key decodes to user key key
NamesActiveRecord(segs, loc, key) ==
    \E e \in LocatedRecords(segs, loc) :
        /\ is_active(e)
        /\ decode_transaction_key(e.key).key = key

\* C12: in every state of an open Db every index entry maps a user key to
\* the locator of a record that exists in a segment of the directory, has
\* state Active and carries that user key; no entry names a tombstone or a
\* commit marker.
C12_IndexNamesActive ==
    live => \A k \in DOMAIN index :
               /\ k \in UserKeys
               /\ NamesActiveRecord(dir.segs, index[k], k)

\* the step appends nothing and leaves the write position, the sequence
\* number and the index as they are
NothingWritten ==
    /\ dir' = dir
    /\ active_file' = active_file
    /\ inactive_files' = inactive_files
    /\ file_id' = file_id
    /\ sequence_number' = sequence_number
    /\ index' = index

\* the records of all the segments of a directory
AllRecords(d) == UNION {{d.segs[i][j] : j \in DOMAIN d.segs[i]} : i \in DOMAIN d.segs}

\* C13: commit on a batch of more than max_batch_num pending keys returns
\* Unsupported, appends no record, consumes no sequence number, leaves the
\* index as it is and keeps the pending writes; commit on a batch of exactly
\* max_batch_num keys returns Ok, consumes one sequence number, appends its
\* commit marker and empties the batch.
C13_BatchCap ==
    [][last_call'.op = "commit" =>
          /\ Cardinality(DOMAIN pending_writes) > max_batch_num =>
                /\ last_call'.kind = "Unsupported"
                /\ NothingWritten
                /\ pending_writes' = pending_writes
          /\ Cardinality(DOMAIN pending_writes) = max_batch_num =>
                /\ last_call'.kind = "Ok"
                /\ sequence_number' = sequence_number + 1
                /\ pending_writes' = EmptyMap
                /\ DataEntry(encode_transaction_key(COMMITTED_KEY, sequence_number),
                             <<>>, "Committed") \in AllRecords(dir')]_vars

\* a commit was refused for a batch of more than max_batch_num keys, which
\* is still pending
C13_Witness ==
    /\ last_call.op = "commit"
    /\ last_call.kind = "Unsupported"
    /\ Cardinality(DOMAIN pending_writes) > max_batch_num

\* a batch of exactly max_batch_num keys was committed
C13_WitnessAtCap ==
    /\ last_call.op = "commit"
    /\ last_call.kind = "Ok"
    /\ \E e \in AllRecords(dir) : e.state = "Committed"
    /\ Cardinality({e \in AllRecords(dir) : e.state # "Committed"}) = max_batch_num

\* C14: on a Db that is not read-only, put with an empty key, a key longer
\* than max_key_size or a value longer than max_value_size returns
\* Unsupported and leaves the log, the active write offset and the index
\* unchanged; put with any other arguments, a key of max_key_size bytes and
\* a value of max_value_size bytes among them, returns Ok and appends the
\* record.
C14_PutValidation ==
    [][(last_call'.op = "put" /\ ~read_only) =>
          IF \/ last_call'.key = <<>>
             \/ Len(last_call'.key) > max_key_size
             \/ Len(last_call'.value) > max_value_size
          THEN last_call'.kind = "Unsupported" /\ NothingWritten
          ELSE /\ last_call'.kind = "Ok"
               /\ dir' # dir
               /\ DataEntry(encode_transaction_key(last_call'.key, NON_COMMITTED),
                            last_call'.value, "Active") \in AllRecords(dir')]_vars

\* a put with an argument out of its limits was refused
C14_Witness ==
    /\ last_call.op = "put"
    /\ last_call.kind = "Unsupported"
    /\ ~read_only
    /\ \/ last_call.key = <<>>
       \/ Len(last_call.key) > max_key_size
       \/ Len(last_call.value) > max_value_size

\* a put with a key and a value at their limits was accepted
C14_WitnessAtLimit ==
    /\ last_call.op = "put"
    /\ last_call.kind = "Ok"
    /\ Len(last_call.key) = max_key_size
    /\ Len(last_call.value) = max_value_size

\* C15: on a Db opened with read_only = true, put and delete return an
\* error of kind Unsupported, append no record and change no index entry.
C15_ReadOnlyUnsupported ==
    [][(read_only /\ last_call'.op \in {"put", "delete"}) =>
          /\ last_call'.kind = "Unsupported"
          /\ NothingWritten]_vars

\* C15 as amended: on a Db opened with read_only = true, put and delete
\* return the I/O error PermissionDenied, append no record and change no
\* index entry.
C15_ReadOnlyRefused ==
    [][(read_only /\ last_call'.op \in {"put", "delete"}) =>
          /\ last_call'.kind = "PermissionDenied"
          /\ NothingWritten]_vars

\* a put with valid arguments was refused by a read-only Db that holds a key
C15_Witness ==
    /\ read_only
    /\ last_call.op = "put"
    /\ last_call.kind = "PermissionDenied"
    /\ ValidKey(last_call.key)
    /\ Len(last_call.value) <= max_value_size
    /\ index # EmptyMap

\* the positions of the records of user key k in the directory
RecordsOfKey(d, k) ==
    {q \in Positions(d) : decode_transaction_key(d.segs[q[1]][q[2]].key).key = k}

\* the record has the key and the value it was written with and a checksum
\* of which a byte was altered
CrcBytesAltered(e) ==
    IsAltered(e) /\ last_call = Call("alter", <<>>, <<>>, "crc")

\* C16: when a byte of the key, the value or the checksum of a stored
\* record was altered on disk, a get whose index entry points at that record
\* fails with the CRC-mismatch error; and when the one record of a key k,
\* written by put(k, v), had its checksum altered, get(k) fails with the
\* CRC-mismatch error, after a close and a reopen as well.
C16_AlteredRecordFailsGet ==
    live =>
       /\ \A k \in DOMAIN index :
             (\E e \in LocatedRecords(dir.segs, index[k]) : IsAltered(e))
                => GetNow(k).kind = "Crc"
       /\ \A k \in UserKeys :
             (/\ Cardinality(RecordsOfKey(dir, k)) = Cardinality({k})
              /\ \A q \in RecordsOfKey(dir, k) :
                    /\ is_active(dir.segs[q[1]][q[2]])
                    /\ CrcBytesAltered(dir.segs[q[1]][q[2]]))
                => GetNow(k).kind = "Crc"

\* C17: merge on a Db that holds no record (active write offset 0 and no
\* inactive segment) returns Unsupported and has no effect: no merge
\* directory is created, the active segment is not rotated, the index and
\* the directory are unchanged.
C17_MergeEmptyRefused ==
    [][(/\ last_call'.op = "merge"
        /\ active_file.offset = 0
        /\ DOMAIN inactive_files = {}) =>
          /\ last_call'.kind = "Unsupported"
          /\ mdir' = mdir
          /\ NothingWritten]_vars

\* merge was refused on an open Db without a record and there is no merge
\* directory
C17_Witness ==
    /\ live
    /\ last_call = Call("merge", <<>>, <<>>, "Unsupported")
    /\ active_file.offset = 0
    /\ DOMAIN inactive_files = {}
    /\ ~mdir.exists

\* C18: close, called by the user or run when the Db is dropped, returns Ok
\* after the sync of the active segment and leaves the directory lock
\* released, also when it is the second close of the Db, and returns Ok
\* when the directory no longer exists; an open of the directory after the
\* close or after the drop of the Db succeeds.
C18_CloseReleasesLock ==
    [][/\ last_call'.op \in {"close", "drop"} =>
             /\ last_call'.kind = "Ok"
             /\ dir.exists => lock_file' = 0
       /\ (last_call'.op = "open_second" /\ last_call.op = "close") =>
             last_call'.kind = "Ok"
       /\ (last_call'.op = "open" /\ last_call.op = "drop") =>
             last_call'.kind = "Ok"]_vars

\* a Db with a record was closed and the directory was then opened again
C18_Witness ==
    /\ last_call = Call("open_second", <<>>, <<>>, "Ok")
    /\ live
    /\ lock_file = 0
    /\ index # EmptyMap

\* close returned Ok on a Db whose directory was removed
C18_WitnessNoDir ==
    /\ last_call = Call("close", <<>>, <<>>, "Ok")
    /\ ~dir.exists
    /\ lock_file # 0

\* the hint records of the directory that are written for user key k
HintRecordsOf(d, k) ==
    {i \in DOMAIN d.hint :
        d.hint[i].key \in {k, encode_transaction_key(k, NON_COMMITTED)}}

\* C19: after an open of a directory with a hint file, for every user key
\* that has a record in the hint file the index entry is the locator stored
\* in its (last) hint record, whatever the scan of the segments had found
\* for that key.
C19_HintOverridesScan ==
    (live /\ fresh /\ dir.has_hint) =>
        \A k \in UserKeys :
            HintRecordsOf(dir, k) # {} =>
               /\ k \in DOMAIN index
               /\ \E i \in HintRecordsOf(dir, k) :
                     /\ \A j \in HintRecordsOf(dir, k) : j <= i
                     /\ index[k] = decode_keydir_entry(dir.hint[i].value)

\* C20: after a close and a reopen, a key whose most recent write in log
\* order is an entry of a committed batch has that entry applied under its
\* own user key: when the entry is a tombstone the key has no index entry
\* and get returns not-found, when it is Active the index entry of the key
\* names an Active record of the key.
C20_MarkerAppliesBatch ==
    (live /\ fresh /\ how = "closed") =>
        \A k \in UserKeys :
            LET w == LogState(dir.segs)[k]
            IN (w.written /\ w.seq_no # NON_COMMITTED) =>
                  IF w.value = NoValue
                  THEN k \notin DOMAIN index /\ NotFound(GetNow(k))
                  ELSE /\ k \in DOMAIN index
                       /\ NamesActiveRecord(dir.segs, index[k], k)

\* the step is a commit of a batch that is not empty and it returned Ok
CommitReturnsOk ==
    /\ live /\ live'
    /\ pending_writes # EmptyMap
    /\ sequence_number' = sequence_number + 1

\* C21: when commit returns Ok, for every pending put (k, v) the index maps
\* k to the locator of the record the commit appended for k, so that get(k)
\* returns v; for every pending delete the index entry of the key is what
\* it was before the commit; and the pending writes of the batch are empty.
C21_CommitUpdatesIndex ==
    [][CommitReturnsOk =>
          /\ pending_writes' = EmptyMap
          /\ \A k \in DOMAIN pending_writes :
                IF is_active(pending_writes[k])
                THEN /\ k \in DOMAIN index'
                     /\ LocatedRecords(dir'.segs, index'[k]) =
                           {DataEntry(encode_transaction_key(k, sequence_number),
                                      pending_writes[k].value, "Active")}
                     /\ get(DbAfter, dir'.segs, k) = Result("Ok", pending_writes[k].value)
                ELSE /\ (k \in DOMAIN index') = (k \in DOMAIN index)
                     /\ k \in DOMAIN index => index'[k] = index[k]]_vars

\* the commit marker of the batch of sequence number q is in the log
MarkerAppended(segs, q) ==
    DataEntry(encode_transaction_key(COMMITTED_KEY, q), <<>>, "Committed")
        \in UNION {{segs[i][j] : j \in DOMAIN segs[i]} : i \in DOMAIN segs}

\* every record of the batch pending under sequence number q is in the log
EntriesAppended(segs, pending, q) ==
    \A k \in DOMAIN pending :
        DataEntry(encode_transaction_key(k, q), pending[k].value, pending[k].state)
            \in UNION {{segs[i][j] : j \in DOMAIN segs[i]} : i \in DOMAIN segs}

\* C22: in commit the index insertion of the entries of a batch happens
\* after the append of all its entries and of its commit marker (the sync of
\* sync_writes sits between the two): a step of a Db that changes the index
\* is the step of a commit whose entries and marker are in the log already,
\* and a record of a batch that a get reads through the index belongs to a
\* batch whose commit marker is in the log.
C22_VisibleAfterMarker ==
    [][/\ (live /\ index' # index) =>
             \E t \in ThreadIds :
                /\ conc.pc[t] = "index"
                /\ MarkerAppended(dir.segs, conc.seq_no[t])
                /\ EntriesAppended(dir.segs, conc.pending[t], conc.seq_no[t])
                /\ \A k \in DOMAIN index' :
                      (k \notin DOMAIN index \/ index'[k] # index[k])
                         => k \in DOMAIN conc.pending[t]
       /\ live' =>
             \A k \in DOMAIN index' :
                \A e \in LocatedRecords(dir'.segs, index'[k]) :
                   decode_transaction_key(e.key).seq_no # NON_COMMITTED
                      => MarkerAppended(dir'.segs, decode_transaction_key(e.key).seq_no)]_vars

\* while one commit has appended all its entries and not its marker, the
\* index names a record of another batch, whose marker is in the log
C22_Witness ==
    /\ \E t \in ThreadIds :
          /\ conc.pc[t] = "append"
          /\ Len(conc.locs[t]) = Len(conc.order[t])
          /\ ~MarkerAppended(dir.segs, conc.seq_no[t])
    /\ \E k \in DOMAIN index :
          \E e \in LocatedRecords(dir.segs, index[k]) :
             /\ decode_transaction_key(e.key).seq_no # NON_COMMITTED
             /\ GetNow(k) = Result("Ok", e.value)

\* C23: between operations the Db has one active segment, which exists in
\* the directory, whose id is the file-id counter and is greater than the
\* id of every inactive segment; an operation rotates by creating the
\* segment of the previous active id plus one, which did not exist, and
\* moves the previous active segment to the inactive map; and the content
\* of a segment of the inactive map is never changed.
C23_OneActiveSegment ==
    [][/\ live' =>
             /\ active_file'.file_id = file_id'
             /\ file_id' \in DOMAIN dir'.segs
             /\ \A i \in DOMAIN inactive_files' : i < file_id'
       /\ (live /\ live') =>
             /\ file_id' >= file_id
             /\ \A i \in (file_id + 1)..file_id' :
                   /\ i \notin DOMAIN dir.segs
                   /\ i \in DOMAIN dir'.segs
                   /\ i - 1 \in DOMAIN inactive_files'
             /\ \A i \in DOMAIN inactive_files :
                   /\ i \in DOMAIN inactive_files'
                   /\ i \in DOMAIN dir'.segs
                   /\ dir'.segs[i] = dir.segs[i]]_vars

\* a Db with two inactive segments, one of them rotated by a merge, that
\* has appended to its active segment since
C23_Witness ==
    /\ live
    /\ merges > 0
    /\ Cardinality(DOMAIN inactive_files) >= 2
    /\ dir.segs[file_id] # <<>>

KeysWritten(pending) ==
    {decode_transaction_key(BatchEntries(pending, order, sequence_number)[i].key).key :
        order \in Orders(DOMAIN pending), i \in 1..Cardinality(DOMAIN pending)}

\* C25: WriteBatch.delete(k) with a non-empty key returns Ok and touches
\* nothing but the pending entry of k: with k neither in the index nor
\* pending nothing changes, with k pending but not in the index the pending
\* entry is dropped and a commit writes no record for k, with k in the
\* index the pending entry of k is a tombstone, whatever it was before.
C25_BatchDelete ==
    [][(last_call'.op = "batch_delete" /\ last_call'.key # <<>>) =>
          LET k == last_call'.key
          IN /\ last_call'.kind = "Ok"
             /\ UNCHANGED <<dir, mdir, live, index, active_file, inactive_files, file_id,
                            sequence_number>>
             /\ \A j \in (DOMAIN pending_writes \cup DOMAIN pending_writes') \ {k} :
                   /\ j \in DOMAIN pending_writes /\ j \in DOMAIN pending_writes'
                   /\ pending_writes'[j] = pending_writes[j]
             /\ IF k \in DOMAIN index
                THEN /\ k \in DOMAIN pending_writes'
                     /\ pending_writes'[k] = DataEntry(k, <<>>, "Inactive")
                ELSE /\ k \notin DOMAIN pending_writes'
                     /\ k \notin KeysWritten(pending_writes')
                     /\ k \notin DOMAIN pending_writes => pending_writes' = pending_writes]_vars

\* a batch holding a pending put in which a delete has left the tombstone
\* of a key of the index
C25_Witness ==
    /\ live
    /\ last_call.op = "batch_delete"
    /\ last_call.key \in DOMAIN index
    /\ last_call.key \in DOMAIN pending_writes
    /\ ~is_active(pending_writes[last_call.key])
    /\ \E j \in DOMAIN pending_writes : is_active(pending_writes[j])

\* a batch that has dropped the pending put of a key the index does not hold
C25_WitnessDropped ==
    /\ live
    /\ last_call.op = "batch_delete"
    /\ last_call.key # <<>>
    /\ last_call.key \notin DOMAIN index
    /\ last_call.key \notin DOMAIN pending_writes
    /\ pending_writes # EmptyMap

\* the step is a call of merge that returns Ok
MergeReturnsOk ==
    /\ live /\ live'
    /\ merges' = merges + 1
    /\ mdir'.has_fin
    /\ ~IsEmptyDb(TheDb)

\* C26: after a merge that returned Ok the segments of the merge directory
\* hold, for every key of the index, exactly one record of that key, the
\* record the index entry of the key points to with sequence number 0 in
\* its key, and hold no other record.
C26_MergedRecords ==
    [][MergeReturnsOk =>
          /\ \A k \in DOMAIN index :
                /\ Cardinality(RecordsOfKey(mdir', k)) = 1
                /\ \A q \in RecordsOfKey(mdir', k) :
                      \E e \in LocatedRecords(dir.segs, index[k]) :
                         mdir'.segs[q[1]][q[2]] =
                            [e EXCEPT !.key = encode_transaction_key(k, NON_COMMITTED)]
          /\ \A q \in Positions(mdir') :
                decode_transaction_key(mdir'.segs[q[1]][q[2]].key).key \in DOMAIN index]_vars

\* the locator of the record at position q of the segments of directory d
LocatorOf(d, q) ==
    KeyDirEntry(q[1], OffsetOf(d.segs[q[1]], q[2]), EncodedLen(d.segs[q[1]][q[2]]))

\* C27: after a merge that returned Ok every record of the merged segments
\* has exactly one hint record, the key of a hint record is a user key of
\* the index without the sequence-number prefix and its value decodes to the
\* locator of the rewritten record of that key; and the index of a Db just
\* opened holds no key other than user keys.
C27_HintRecords ==
    [][/\ MergeReturnsOk =>
             /\ \A q \in Positions(mdir') :
                   Cardinality({i \in DOMAIN mdir'.hint :
                                   decode_keydir_entry(mdir'.hint[i].value) =
                                      LocatorOf(mdir', q)}) = 1
             /\ \A i \in DOMAIN mdir'.hint :
                   /\ mdir'.hint[i].key \in DOMAIN index
                   /\ NamesRecord(mdir'.segs, decode_keydir_entry(mdir'.hint[i].value),
                                  mdir'.hint[i].key)
       /\ (live' /\ fresh') => \A k \in DOMAIN index' : k \in UserKeys]_vars

\* the id that the last merge wrote to the merge_finished file of m
RecordedFileId(m) == ParseId(m.fin[Len(m.fin)].value)

\* the step is an open that returns Ok on a directory whose merge directory
\* holds a merge_finished file
OpenInstallsMerge ==
    /\ ~live /\ live'
    /\ mdir.exists /\ mdir.has_fin /\ mdir.fin # <<>>

\* C28: a merge that returned Ok has written to merge_finished the id of the
\* active segment its rotation created, the first id outside its snapshot;
\* the next open removes every segment of the directory with a smaller id,
\* has every file of the merge directory in the directory with the content
\* it had there, removes the merge directory and keeps every segment with
\* that id or a larger one as it was.
C28_MergeInstalled ==
    [][/\ MergeReturnsOk =>
             /\ RecordedFileId(mdir') = file_id'
             /\ file_id' = file_id + 1
             /\ \A i \in DOMAIN inactive_files \cup {active_file.file_id} : i < file_id'
       /\ OpenInstallsMerge =>
             /\ mdir' = NoDir
             /\ \A i \in DOMAIN dir.segs :
                   IF i < RecordedFileId(mdir)
                   THEN i \notin DOMAIN mdir.segs => i \notin DOMAIN dir'.segs
                   ELSE i \in DOMAIN dir'.segs /\ dir'.segs[i] = dir.segs[i]
             /\ \A i \in DOMAIN mdir.segs :
                   i \in DOMAIN dir'.segs /\ dir'.segs[i] = mdir.segs[i]
             /\ mdir.has_hint => dir'.has_hint /\ dir'.hint = mdir.hint
             /\ dir'.has_fin /\ dir'.fin = mdir.fin
             /\ mdir.lock # 0 => dir'.lock = mdir.lock]_vars

\* the positions of the records of the directory that fail the CRC check
\* and have a record after them in their segment
CrcFailuresMidSegment(d) ==
    {q \in Positions(d) : CrcCheckFailed(d.segs[q[1]][q[2]]) /\ q[2] < Len(d.segs[q[1]])}

\* C29: an open of a directory in which a record in the middle of a segment
\* fails the CRC check does not return a Db: the error of the scan reaches
\* the caller and the records after the failing one are not left out of
\* the index of a Db that open returned.
C29_ScanErrorReturned ==
    [][(~live /\ CrcFailuresMidSegment(dir) # {}) => ~live']_vars

\* the outcome of Db::open on the directory as a close of the Db leaves it
Reopened == open(dir, mdir, {}, InodesInUse)

\* C30: whenever a Db is open with no batch pending and no merge to install,
\* an open of the directory after a close returns a Db whose index has the
\* keys of the index of the open Db and on which get returns, for every
\* key, what it returns on the open Db.
C30_ReopenAgreesWithLive ==
    (live /\ pending_writes = EmptyMap /\ ~mdir.exists) =>
        LET Agrees(r) ==
                /\ r.kind = "Ok"
                /\ DOMAIN r.db.index = DOMAIN index
                /\ \A k \in UserKeys : get(r.db, r.d.segs, k) = get(TheDb, dir.segs, k)
        IN Agrees(Reopened)

\* the offset at which the recovery scan of segment i of directory d stops
ScanEnd(d, i) == process_file_handle(d.segs[i], i, "Mmap", EmptyMap, 0).offset

C32_OffsetAtEndAfterOpen ==
    [][/\ (~live /\ live') => active_file'.offset = SegLen(dir'.segs[file_id'])
       /\ (live /\ fresh /\ active_file.offset = ScanEnd(dir, file_id) /\ live') =>
             \A k \in DOMAIN index' :
                (k \notin DOMAIN index \/ index'[k] # index[k]) =>
                   index'[k] = LocatorOf(dir', <<file_id', Len(dir'.segs[file_id'])>>)]_vars

(***************************************************************************)
(* A get that runs while commits append and rotate: append_entry and       *)
(* read_data_entry taken one shared access at a time (db.rs).              *)
(***************************************************************************)
\* the thread that commits while another thread reads
TheCommitter == CHOOSE t \in ThreadIds : TRUE

\* the entry that the commit of thread t appends next
NextEntryOf(t) ==
    IF Len(conc.locs[t]) < Len(conc.order[t])
    THEN BatchEntries(conc.pending[t], conc.order[t], conc.seq_no[t])[Len(conc.locs[t]) + 1]
    ELSE DataEntry(encode_transaction_key(COMMITTED_KEY, conc.seq_no[t]), <<>>, "Committed")

\* append_entry when the record fits the active segment: one critical section
\* under the write guard
AppendNoRotation(t) ==
    /\ conc.pc[t] = "append"
    /\ conc.rot = "none"
    /\ ~NeedsRotation(active_file.offset, EncodedLen(NextEntryOf(t)))
    /\ (AppendPending(t) \/ AppendCommitted(t))

\* append_entry under the write guard: let current_fid = self.file_id.fetch_add(1)
RotateFetchAdd(t) ==
    /\ conc.pc[t] = "append"
    /\ conc.rot = "none"
    /\ NeedsRotation(active_file.offset, EncodedLen(NextEntryOf(t)))
    /\ file_id' = file_id + 1
    /\ conc' = [conc EXCEPT !.rot = "fetched"]
    /\ UNCHANGED <<dir, mdir, live, index, active_file, inactive_files, sequence_number,
                   lock_file, pending_writes, open_result, appended, ghost, merges,
                   stops, second_result>>

\* self.inactive_files.insert(current_fid, write_guard.clone())
RotateInsert(t) ==
    /\ conc.pc[t] = "append"
    /\ conc.rot = "fetched"
    /\ inactive_files' = MapPut(inactive_files, file_id - 1, active_file.io)
    /\ conc' = [conc EXCEPT !.rot = "inserted"]
    /\ UNCHANGED <<dir, mdir, live, index, active_file, file_id, sequence_number,
                   lock_file, pending_writes, open_result, appended, ghost, merges,
                   stops, second_result>>

\* *write_guard = new_file, the write of the record and the release of the
\* write guard at the return of append_entry
RotateWrite(t) ==
    /\ conc.pc[t] = "append"
    /\ conc.rot = "inserted"
    /\ LET new_file == [segs |-> CreateFile(dir.segs, file_id),
                        active_file |-> FileHandle(file_id, 0, "Standard"),
                        inactive_files |-> inactive_files,
                        file_id |-> file_id]
           Written(r) ==
               /\ SetW(r.w)
               /\ conc' = IF Len(conc.locs[t]) < Len(conc.order[t])
                          THEN [conc EXCEPT !.rot = "none", !.locs[t] = Append(@, r.loc)]
                          ELSE [conc EXCEPT !.rot = "none", !.pc[t] = "index"]
       IN Written(append_entry(new_file, NextEntryOf(t)))
    /\ appended' = appended + 1
    /\ UNCHANGED <<mdir, live, index, sequence_number, lock_file, pending_writes,
                   open_result, ghost, merges, stops, second_result>>

\* the steps of the thread that reads leave all but the handles as they are
GetFrame ==
    UNCHANGED <<dir, mdir, live, index, inactive_files, file_id, sequence_number,
                lock_file, pending_writes, open_result, appended, ghost, merges, stops,
                second_result>>

\* Db::get: self.ctx.index.get(&key) returns Some(entry)
GetIndex(key) ==
    /\ live
    /\ conc.get.pc = "idle"
    /\ key \in DOMAIN index
    /\ conc' = [conc EXCEPT !.get = [pc |-> "entry", key |-> key, entry |-> index[key],
                                     result |-> Result("none", <<>>)]]
    /\ GetFrame /\ UNCHANGED active_file

\* read_data_entry: file_id == self.file_id.load(SeqCst)
GetLoadFileId ==
    /\ conc.get.pc = "entry"
    /\ conc' = [conc EXCEPT !.get.pc = IF conc.get.entry.file_id = file_id
                                       THEN "active" ELSE "inactive"]
    /\ GetFrame /\ UNCHANGED active_file

\* the result of read_data_entry from the file s through a handle on io
ReadAt(s, io, offset) ==
    LET Read(r) == IF r.kind # "Ok" THEN Result(r.kind, <<>>)
                   ELSE IF ~is_active(r.entry) THEN Result("EntryRemoved", <<>>)
                   ELSE Result("Ok", r.entry.value)
    IN Read(extract_data_entry(s, io, offset))

\* read_data_entry: the read guard of the active handle, taken when no
\* thread holds its write guard, and the read through that handle
GetReadActive ==
    /\ conc.get.pc = "active"
    /\ conc.rot = "none"
    /\ conc' = [conc EXCEPT !.get.pc = "idle",
                            !.get.result = ReadAt(dir.segs[active_file.file_id],
                                                  active_file.io, conc.get.entry.offset)]
    /\ active_file' = [active_file EXCEPT !.offset =
                          OffsetAfterExtract(dir.segs[active_file.file_id],
                                             active_file.io, conc.get.entry.offset)]
    /\ GetFrame

\* read_data_entry: self.inactive_files.get(&file_id) and the read through
\* the handle found, or the file-not-found error
GetReadInactive ==
    /\ conc.get.pc = "inactive"
    /\ conc' = [conc EXCEPT !.get.pc = "idle",
                            !.get.result =
                               IF conc.get.entry.file_id \in DOMAIN inactive_files
                               THEN ReadAt(dir.segs[conc.get.entry.file_id],
                                           inactive_files[conc.get.entry.file_id],
                                           conc.get.entry.offset)
                               ELSE Result("FileNotFound", <<>>)]
    /\ GetFrame /\ UNCHANGED active_file

\* one thread commits batches, one thread reads
NextGet ==
    \/ UNCHANGED calls /\ Open
    \/ UNCHANGED calls /\ \E keys \in Batches : \E order \in Orders(keys) :
          BeginCommit(TheCommitter, keys, order)
    \/ UNCHANGED calls /\ LockCommit(TheCommitter)
    \/ UNCHANGED calls /\ FetchSeqNo(TheCommitter)
    \/ UNCHANGED calls /\ AppendNoRotation(TheCommitter)
    \/ UNCHANGED calls /\ RotateFetchAdd(TheCommitter)
    \/ UNCHANGED calls /\ RotateInsert(TheCommitter)
    \/ UNCHANGED calls /\ RotateWrite(TheCommitter)
    \/ UNCHANGED calls /\ EndCommit(TheCommitter)
    \/ UNCHANGED calls /\ \E key \in UserKeys : GetIndex(key)
    \/ UNCHANGED calls /\ GetLoadFileId
    \/ UNCHANGED calls /\ GetReadActive
    \/ UNCHANGED calls /\ GetReadInactive

SpecGet == Init /\ [][NextGet]_vars

\* the handle of the Db that holds file id i: the active handle or a handle
\* of the inactive map
HandleOf(i) ==
    IF i = active_file.file_id THEN [known |-> TRUE, io |-> active_file.io]
    ELSE IF i \in DOMAIN inactive_files THEN [known |-> TRUE, io |-> inactive_files[i]]
    ELSE [known |-> FALSE, io |-> "Standard"]

\* C33: a read of read_data_entry that runs while commits append and rotate
\* does not fail with the file-not-found error and returns what the handle
\* that holds the file id of its index entry, at the moment of the read,
\* gives at the offset of that entry.
C33_GetReadsNamedRecord ==
    [][(conc.get.pc \in {"active", "inactive"} /\ conc'.get.pc = "idle") =>
          /\ conc'.get.result.kind # "FileNotFound"
          /\ HandleOf(conc.get.entry.file_id).known
          /\ conc'.get.result = ReadAt(dir.segs[conc.get.entry.file_id],
                                       HandleOf(conc.get.entry.file_id).io,
                                       conc.get.entry.offset)]_vars

\* C34: in every state of an open Db no segment file is longer than
\* data_file_size and every segment that a rotation has moved to the
\* inactive map holds at least one record.
C34_SegmentsWithinSize ==
    live => \A i \in DOMAIN dir.segs :
               /\ SegLen(dir.segs[i]) <= data_file_size
               /\ i \in DOMAIN inactive_files => dir.segs[i] # <<>>

C36_BatchRespectsLimits ==
    [][(live /\ last_call'.op = "commit" /\ last_call'.kind = "Ok") =>
          \A k \in DOMAIN pending_writes :
             /\ Len(k) <= max_key_size
             /\ Len(pending_writes[k].value) <= max_value_size
             /\ is_active(pending_writes[k]) =>
                   get(DbAfter, dir'.segs, k).kind # "Unsupported"]_vars

\* the commit markers of directory d before which their segment holds no
\* entry of their sequence number
MarkersWithoutEntry(d) ==
    {q \in Positions(d) :
        /\ d.segs[q[1]][q[2]].state = "Committed"
        /\ \A j \in 1..(q[2] - 1) :
              \/ d.segs[q[1]][j].state = "Committed"
              \/ decode_transaction_key(d.segs[q[1]][j].key).seq_no #
                    decode_transaction_key(d.segs[q[1]][q[2]].key).seq_no}

\* C37: no open of the directory has aborted, after a close or after a stop
\* of the process at any point, and no segment holds a commit marker that
\* has no entry of its sequence number before it in that segment.
C37_OpenNeverAborts ==
    /\ open_result # "Panic"
    /\ MarkersWithoutEntry(dir) = {}

(***************************************************************************)
(* A WriteBatch shared by two threads: one runs commit, the other calls    *)
(* put on the same batch.  pending_writes is a DashMap: an insert is one   *)
(* atomic step, and an iteration that is under way visits an inserted key  *)
(* or not.                                                                 *)
(***************************************************************************)
\* the keys of a sequence of keys
KeysOf(order) == {order[i] : i \in DOMAIN order}

\* the iteration of commit is at the pending write of key inside an
\* append_entry that rotates: it holds the lock of the part of pending_writes
\* that key is in, and an insert or a remove of key waits for it
IterationHolds(t, key) ==
    /\ conc.pc[t] = "append"
    /\ conc.rot # "none"
    /\ Len(conc.locs[t]) < Len(conc.order[t])
    /\ conc.order[t][Len(conc.locs[t]) + 1] = key

\* WriteBatch::put of Val2 by another thread while thread t is inside commit;
\* seen: the iteration of commit that is under way visits the inserted key
SharedPut(t, key, seen) ==
    /\ live
    /\ conc.pc[t] \in {"wait", "locked", "append", "index"}
    /\ key # <<>>
    /\ ~IterationHolds(t, key)
    /\ key \in DOMAIN conc.pending[t] => conc.pending[t][key].value # Val2
    /\ (conc.pc[t] \in {"wait", "locked"} /\ key \notin KeysOf(conc.order[t])) => seen
    /\ conc' = [conc EXCEPT
                  !.pending[t] = MapPut(@, key, DataEntry(key, Val2, "Active")),
                  !.order[t] = IF key \notin KeysOf(@) /\ seen /\ conc.pc[t] # "index"
                               THEN Append(@, key) ELSE @,
                  !.late = IF key \notin KeysOf(conc.order[t]) /\ ~seen
                              /\ conc.pc[t] = "index"
                           THEN @ \cup {key} ELSE @]
    /\ UNCHANGED <<dir, mdir, live, dbvars, pending_writes, open_result, appended,
                   ghost, merges, stops, second_result>>

\* the Active pending writes the second iteration of commit visits and for
\* which keydir_entries holds no locator
Unlocated(t) == {k \in DOMAIN conc.pending[t] \ conc.late :
                    is_active(conc.pending[t][k]) /\ k \notin KeysOf(conc.order[t])}

\* the index after the second iteration of commit over the pending writes
\* that keydir_entries holds a locator for
RECURSIVE IndexShared(_, _, _, _)
IndexShared(idx, pending, order, locs) ==
    IF order = <<>> THEN idx
    ELSE IndexShared(IF Head(order) \in DOMAIN pending /\ is_active(pending[Head(order)])
                     THEN IndexPut(idx, Head(order), Head(locs)) ELSE idx,
                     pending, Tail(order), Tail(locs))

\* the second iteration of commit with its unwrap of keydir_entries.get,
\* pending_writes.clear() and the release of the mutex, on a batch another
\* thread may have put into; all: the index puts made before the panic
EndCommitShared(t, all) ==
    /\ conc.pc[t] = "index"
    /\ IF Unlocated(t) # {}
       THEN /\ index' = IF all THEN IndexShared(index, conc.pending[t], conc.order[t],
                                                conc.locs[t])
                        ELSE index
            /\ conc' = [conc EXCEPT !.pc[t] = "panic", !.lock = @ \ {t}]
       ELSE /\ ~all
            /\ index' = IndexShared(index, conc.pending[t], conc.order[t], conc.locs[t])
            /\ conc' = [conc EXCEPT !.pc[t] = "idle",
                                    !.pending[t] = EmptyMap,
                                    !.order[t] = <<>>,
                                    !.locs[t] = <<>>,
                                    !.late = {},
                                    !.lock = @ \ {t}]
    /\ UNCHANGED <<dir, mdir, live, active_file, inactive_files, file_id,
                   sequence_number, lock_file, pending_writes, open_result, appended,
                   ghost, merges, stops, second_result>>

NextShared ==
    \/ UNCHANGED calls /\ Open
    \/ UNCHANGED calls /\ \E keys \in Batches : \E order \in Orders(keys) :
          BeginCommit(TheCommitter, keys, order)
    \/ UNCHANGED calls /\ LockCommit(TheCommitter)
    \/ UNCHANGED calls /\ FetchSeqNo(TheCommitter)
    \/ UNCHANGED calls /\ AppendPending(TheCommitter)
    \/ UNCHANGED calls /\ AppendCommitted(TheCommitter)
    \/ UNCHANGED calls /\ \E key \in UserKeys, seen \in BOOLEAN :
          SharedPut(TheCommitter, key, seen)
    \/ UNCHANGED calls /\ \E all \in BOOLEAN : EndCommitShared(TheCommitter, all)

SpecShared == Init /\ [][NextShared]_vars

\* the pending write of key k of thread t is in the log under the sequence
\* number of the commit, and its key is indexed at that record if it is Active
WrittenAndIndexed(t, k, segs, idx) ==
    LET item == conc.pending[t][k]
        rec == DataEntry(encode_transaction_key(k, conc.seq_no[t]), item.value, item.state)
    IN /\ \E i \in DOMAIN segs : \E j \in DOMAIN segs[i] : segs[i][j] = rec
       /\ is_active(item) =>
             /\ k \in DOMAIN idx
             /\ \E j \in DOMAIN segs[idx[k].file_id] :
                   /\ segs[idx[k].file_id][j] = rec
                   /\ LocatorOf([segs |-> segs], <<idx[k].file_id, j>>) = idx[k]

\* C38: when commit returns on a batch another thread puts into, it has not
\* aborted, and every pending write of the batch is either written under the
\* sequence number of the commit and indexed, or still pending afterwards
C38_SharedBatchNothingDropped ==
    [][(conc.pc[TheCommitter] = "index" /\ conc'.pc[TheCommitter] # "index") =>
          /\ conc'.pc[TheCommitter] # "panic"
          /\ \A k \in DOMAIN conc.pending[TheCommitter] :
                \/ WrittenAndIndexed(TheCommitter, k, dir'.segs, index')
                \/ /\ k \in DOMAIN conc'.pending[TheCommitter]
                   /\ conc'.pending[TheCommitter][k] = conc.pending[TheCommitter][k]]_vars

\* C39: when an open finds a finished merge, every segment of the merge
\* directory has an id smaller than the unmerged file id that open reads from
\* merge_finished, and the installation leaves every segment of the directory
\* with that id or a larger one as it was; also after a second merge made
\* without a reopen in between.
C39_MergeBelowUnmergedId ==
    [][(~live /\ live' /\ mdir.exists /\ MergeIsFinished(mdir)) =>
          /\ \A i \in DOMAIN mdir.segs : i < UnmergedFileId(mdir)
          /\ \A i \in DOMAIN dir.segs :
                i >= UnmergedFileId(mdir) =>
                   i \in DOMAIN dir'.segs /\ dir'.segs[i] = dir.segs[i]]_vars

(***************************************************************************)
(* Concurrent calls on one Db under fair scheduling: one thread commits a  *)
(* batch, others call put and delete on that batch, get and sync.  The     *)
(* locks: batch_commit_lock (conc.lock), the write guard of the active     *)
(* handle held over a rotation (conc.rot), its read guard (taken when no   *)
(* rotation is under way), the parts of the DashMaps (IterationHolds; the  *)
(* other accesses are one step each).                                      *)
(***************************************************************************)
\* WriteBatch::delete by another thread while thread t is inside commit; the
\* lookup in the index and the access to pending_writes hold no lock across
\* each other and are taken as one step; a delete of a key that is neither in
\* the index nor pending changes nothing
SharedDelete(t, key, seen) ==
    /\ live
    /\ conc.pc[t] \in {"wait", "locked", "append", "index"}
    /\ key # <<>>
    /\ ~IterationHolds(t, key)
    /\ IF key \notin DOMAIN index
       THEN /\ key \in DOMAIN conc.pending[t]
            /\ seen
            /\ conc' = [conc EXCEPT
                          !.pending[t] = [k \in DOMAIN @ \ {key} |-> @[k]],
                          !.order[t] =
                             IF \E i \in DOMAIN @ : i > Len(conc.locs[t]) /\ @[i] = key
                             THEN SelectSeq(@, LAMBDA k : k # key) ELSE @,
                          !.late = @ \ {key}]
       ELSE /\ key \in DOMAIN conc.pending[t] => is_active(conc.pending[t][key])
            /\ (conc.pc[t] \in {"wait", "locked"} /\ key \notin KeysOf(conc.order[t]))
                  => seen
            /\ conc' = [conc EXCEPT
                          !.pending[t] = MapPut(@, key, DataEntry(key, <<>>, "Inactive")),
                          !.order[t] = IF key \notin KeysOf(@) /\ seen
                                          /\ conc.pc[t] # "index"
                                       THEN Append(@, key) ELSE @,
                          !.late = IF key \notin KeysOf(conc.order[t]) /\ ~seen
                                      /\ conc.pc[t] = "index"
                                   THEN @ \cup {key} ELSE @]
    /\ UNCHANGED <<dir, mdir, live, dbvars, pending_writes, open_result, appended,
                   ghost, merges, stops, second_result>>

\* a thread calls Db::sync
SyncBegin ==
    /\ live
    /\ conc.sync = "idle"
    /\ conc' = [conc EXCEPT !.sync = "called"]
    /\ GetFrame /\ UNCHANGED active_file

\* Db::sync: the read guard of the active handle, taken when no thread holds
\* its write guard, the sync of the file and the return
SyncRead ==
    /\ conc.sync = "called"
    /\ conc.rot = "none"
    /\ conc' = [conc EXCEPT !.sync = "idle"]
    /\ GetFrame /\ UNCHANGED active_file

\* the steps of the thread that commits, from the mutex to the return
CommitSteps(t) ==
    \/ LockCommit(t)
    \/ FetchSeqNo(t)
    \/ AppendNoRotation(t)
    \/ RotateFetchAdd(t)
    \/ RotateInsert(t)
    \/ RotateWrite(t)
    \/ \E all \in BOOLEAN : EndCommitShared(t, all)

\* the steps of the thread that reads, after the lookup in the index
GetSteps == GetLoadFileId \/ GetReadActive \/ GetReadInactive

\* the number of commits begun under fair scheduling
MaxLiveCommits == 2

NextLive ==
    \/ UNCHANGED calls /\ Open
    \/ UNCHANGED calls /\ \E keys \in Batches : \E order \in Orders(keys) :
          conc.begun < MaxLiveCommits /\ BeginCommit(TheCommitter, keys, order)
    \/ UNCHANGED calls /\ LockCommit(TheCommitter)
    \/ UNCHANGED calls /\ FetchSeqNo(TheCommitter)
    \/ UNCHANGED calls /\ AppendNoRotation(TheCommitter)
    \/ UNCHANGED calls /\ RotateFetchAdd(TheCommitter)
    \/ UNCHANGED calls /\ RotateInsert(TheCommitter)
    \/ UNCHANGED calls /\ RotateWrite(TheCommitter)
    \/ UNCHANGED calls /\ \E all \in BOOLEAN : EndCommitShared(TheCommitter, all)
    \/ UNCHANGED calls /\ \E key \in UserKeys, seen \in BOOLEAN :
          SharedPut(TheCommitter, key, seen)
    \/ UNCHANGED calls /\ \E key \in UserKeys, seen \in BOOLEAN :
          SharedDelete(TheCommitter, key, seen)
    \/ UNCHANGED calls /\ \E key \in UserKeys : GetIndex(key)
    \/ UNCHANGED calls /\ GetLoadFileId
    \/ UNCHANGED calls /\ GetReadActive
    \/ UNCHANGED calls /\ GetReadInactive
    \/ UNCHANGED calls /\ SyncBegin
    \/ UNCHANGED calls /\ SyncRead

\* fair scheduling: a thread inside a call takes its next step when it can;
\* a thread that waits for a lock obtains it when the lock is free again and
\* again (the locks of parking_lot hand over to the threads that wait)
FairThreads ==
    /\ SF_vars(UNCHANGED calls /\ CommitSteps(TheCommitter))
    /\ SF_vars(UNCHANGED calls /\ GetSteps)
    /\ SF_vars(UNCHANGED calls /\ SyncRead)

SpecLive == Init /\ [][NextLive]_vars /\ FairThreads

\* C40: under fair scheduling every commit, get and sync call that has begun
\* returns, whatever the other threads call in between
C40_EveryCallReturns ==
    /\ (conc.pc[TheCommitter] # "idle") ~> (conc.pc[TheCommitter] = "idle")
    /\ (conc.get.pc # "idle") ~> (conc.get.pc = "idle")
    /\ (conc.sync # "idle") ~> (conc.sync = "idle")

====
